---- MODULE Spec2Model ----
(***************************************************************************)
(* Model of the libguestfs appliance launcher (src/launch-appliance.c):    *)
(* launch_appliance, check_peer_euid, the capability probe, the recovery   *)
(* (watchdog) child and shutdown_appliance.  The library process runs      *)
(* launch_appliance step by step (pc); the VM child and the recovery child *)
(* are separate processes that run in parallel with it.                    *)
(***************************************************************************)
EXTENDS Integers, Sequences, FiniteSets, TLC

(* ------------------------------ bounds --------------------------------- *)
\* number of launch calls made on the handle
MaxLaunches == 1
\* number of connections accepted during one launch
MaxAccepts == 2
\* number of shutdown / max_disks calls made in a row on the handle
MaxCalls == 2
\* number of drives of a handle on which the functions are called alone
MaxDrives == 3
\* length of an options string given to the splitter of the command line
MaxOptLen == 3

(* ------------------------- values and helpers -------------------------- *)
\* a C pointer that may be NULL: <<>> is NULL, <<v>> points to v
NULL == <<>>
Some(v) == <<v>>
IsNull(p) == p = <<>>

\* C strings are sequences of one-character strings
HelpTexts == { <<"-", "m">> }

\* the qemu binary of the handle: its path (g->qemu) and what it prints for
\* -version and for -device ?
Hypervisor(version, devices) ==
  [path |-> <<"/","q">>, version |-> version, devices |-> devices]
Qemu21 == Hypervisor(<<"2",".","1">>, <<"v","i","r","t","i","o","-","s","c","s","i","-","p","c","i">>)

\* struct drive, as the add_drive calls left it
Drive(path, iface, format, disk_label, readonly, use_cache_none) ==
  [path |-> path, iface |-> iface, format |-> format, disk_label |-> disk_label,
   readonly |-> readonly, use_cache_none |-> use_cache_none]
\* the slot that guestfs___add_dummy_appliance_drive adds for the appliance
DummyDrive == Drive(<< >>, <<>>, <<>>, <<>>, FALSE, FALSE)
PlainDrive == Drive(<<"/","a">>, <<>>, <<>>, <<>>, FALSE, FALSE)

\* the uids processes can have; geteuid () of the library process
UidOf == [host |-> 1000, other |-> 1001]
Uids == {UidOf.host, UidOf.other}
geteuid == UidOf.host

\* pids of init and of the library process, and the first pid fork returns
Pids == [init |-> 1, lib |-> 2, first |-> 10]
InitPid == Pids.init
LibPid == Pids.lib
FirstChildPid == Pids.first
\* the pids fork gives the VM child and the recovery child of launch n
VmPid(n) == FirstChildPid + 2 * (n - 1)
WdPid(n) == VmPid(n) + 1

SIGKILL == 9
SIGTERM == 15

\* byte order conversions of a little-endian host
ntohs(x) == (x % 256) * 256 + (x \div 256)
htons(x) == ntohs(x)
ntohl(x) == (x % 256) * 16777216 + ((x \div 256) % 256) * 65536
            + ((x \div 65536) % 256) * 256 + (x \div 16777216)
htonl(x) == ntohl(x)

INADDR_LOOPBACK == 127 * 16777216 + 1
AF_INET == 2
Families == {AF_INET, 10}
\* 10.0.2.2, host byte order
OtherAddr == 10 * 16777216 + 2 * 256 + 2

\* ephemeral port the kernel gives the listening socket, port of the peer
ListenPort == 8 * 256 + 1
PeerPort == 144 * 256 + 31

\* the lowest-numbered descriptor that is not open
LowestFree(open) ==
  CHOOSE n \in 0..Cardinality(open) :
    n \notin open /\ \A m \in 0..(n - 1) : m \in open

\* open(2)-like calls: a new descriptor joins the process's table
OpenFd(f) ==
  LET n == LowestFree(f.open)
  IN [f EXCEPT !.open = @ \cup {n}, !.launch = @ \cup {n},
                !.nonblock = @ \ {n}]

NewFd(f) == LowestFree(f.open)

\* close(2): closing -1 fails with EBADF and changes nothing; closing a
\* number that is not open is recorded in dbl
Close(f, fd) ==
  IF fd < 0 THEN f
  ELSE IF fd \in f.open
       THEN [f EXCEPT !.open = @ \ {fd}, !.nonblock = @ \ {fd}]
       ELSE [f EXCEPT !.dbl = @ \cup {fd}]

RECURSIVE CloseAll(_, _)
CloseAll(f, s) ==
  IF s = <<>> THEN f ELSE CloseAll(Close(f, Head(s)), Tail(s))

SetNonblock(f, fd) == [f EXCEPT !.nonblock = @ \cup {fd}]

\* kill(2) delivered to a process table: SIGKILL ends a running process,
\* which stays a zombie until it is waited for
Deliver(p, pid, sig) ==
  IF pid \in DOMAIN p /\ p[pid] = "running" /\ sig = SIGKILL
  THEN [p EXCEPT ![pid] = "zombie"]
  ELSE p

\* what waitpid can report of a child: exited with code 0, exited with
\* another code, killed by a signal
ExitStatus == {"exit0", "exit1", "signaled"}

\* the process table without the children that have been reaped
Forget(p) == [pid \in {q \in DOMAIN p : p[q] # "gone"} |-> p[pid]]

\* kill (pid, 0) == -1: the pid names no process (zombies still exist)
Existence(p, pid) == pid \in DOMAIN p /\ p[pid] # "gone"

VARIABLES
  pc,        \* position of the library process in launch_appliance
  g,         \* the handle (guestfs_h)
  wfd, rfd,  \* launch_appliance locals: the two pipes
  r,         \* launch_appliance local r
  has_appliance_drive,
  size,      \* launch_appliance local size (the received size word)
  ret,       \* return value of the last call that returned
  lastOp,    \* the last two calls that returned and what they returned,
             \* newest first
  fds,       \* descriptor table of the library process
  proc,      \* process table: pid -> running / exit status / gone
  wd,        \* the recovery (watchdog) child
  syslog,    \* kill / waitpid calls made by the current or last call
  log,       \* what the current or last call emitted: messages, progress
             \* events, runs of the qemu binary
  auth,      \* what check_peer_euid last reported, and of which socket
  pre,       \* the handle as it was when the last call was entered
  status,    \* shutdown_appliance local: what waitpid (qemu) reported
  cnt,       \* launches so far, connections accepted by the last launch,
             \* calls made since the last launch
  child,     \* the VM child of the last launch: what it decided on its copy
             \* of the handle between fork and exec
  null_vmchannel_port  \* launch_appliance local

vars == << pc, g, wfd, rfd, r, has_appliance_drive, size, ret, lastOp, fds,
           proc, wd, syslog, log, auth, pre, status, cnt, child,
           null_vmchannel_port >>

NoWd == [pc |-> "none", pid |-> 0, qemu_pid |-> 0, parent_pid |-> 0]
NoChild ==
  [forked |-> FALSE, virtio_scsi |-> 0, g_virtio_scsi |-> 0,
   appliance_dev |-> NULL, vmchannel |-> << >>]
NoAuth == [r |-> 1, uid |-> -1, fd |-> -1, installed |-> FALSE, expect |-> -1]

\* the handle after guestfs_create and the configuration calls
InitHandle(nd, direct, rp) ==
  [ state |-> "CONFIG", sock |-> -1, fd |-> << -1, -1 >>,
    app_pid |-> 0, app_recoverypid |-> 0, launch_t |-> 0,
    qemu_help |-> NULL, qemu_version |-> NULL, qemu_devices |-> NULL,
    qemu_version_major |-> 0, qemu_version_minor |-> 0, virtio_scsi |-> 0,
    nr_drives |-> nd, drives |-> SubSeq(<< PlainDrive >>, 1, nd), qemu |-> Qemu21,
    smp |-> 1, memsize |-> 500, qemu_params |-> << >>,
    direct |-> direct, recovery_proc |-> rp ]

Init ==
  /\ pc = "idle"
  /\ \E nd \in 0..1, direct \in BOOLEAN, rp \in BOOLEAN :
       g = InitHandle(nd, direct, rp)
  /\ wfd = << -1, -1 >> /\ rfd = << -1, -1 >>
  /\ r = 0
  /\ has_appliance_drive = FALSE
  /\ size = "none"
  /\ ret = 0
  /\ lastOp = << >>
  /\ fds = [open |-> {0, 1, 2}, nonblock |-> {}, launch |-> {}, dbl |-> {}]
  /\ proc = (LibPid :> "running")
  /\ wd = NoWd
  /\ syslog = << >>
  /\ log = {}
  /\ auth = NoAuth
  /\ pre = g
  /\ status = "none"
  /\ cnt = [launch |-> 0, accept |-> 0, calls |-> 0]
  /\ child = NoChild /\ null_vmchannel_port = 0

LibAlive == proc[LibPid] = "running"

\* a call returns to the caller
Return(op, v) ==
  /\ pc' = "idle"
  /\ ret' = v
  /\ lastOp' = << [op |-> op, ret |-> v] >>
                \o SubSeq(lastOp, 1, IF Len(lastOp) > 0 THEN 1 ELSE 0)

\* launch_appliance returns: its locals go out of scope
LaunchReturn(v) ==
  /\ Return("launch", v)
  /\ wfd' = << -1, -1 >> /\ rfd' = << -1, -1 >> /\ r' = 0
  /\ has_appliance_drive' = FALSE
  /\ cnt' = cnt

(* --------------------------- capability probe -------------------------- *)
Digits == {"0", "1", "2", "3", "4", "5", "6", "7", "8", "9"}
DigitVal(c) == CHOOSE n \in 0..9 : <<"0","1","2","3","4","5","6","7","8","9">>[n + 1] = c

\* end of the longest run of digits of t that starts at i
RECURSIVE RunEnd(_, _)
RunEnd(t, i) ==
  IF i + 1 <= Len(t) /\ t[i + 1] \in Digits THEN RunEnd(t, i + 1) ELSE i

\* the regular expression (\d+)\.(\d+): the leftmost match, both runs greedy
MatchAt(t, i) ==
  /\ t[i] \in Digits
  /\ RunEnd(t, i) + 2 <= Len(t)
  /\ t[RunEnd(t, i) + 1] = "."
  /\ t[RunEnd(t, i) + 2] \in Digits

match2(t) ==
  IF \E i \in 1..Len(t) : MatchAt(t, i)
  THEN LET i == CHOOSE k \in 1..Len(t) :
                  MatchAt(t, k) /\ \A m \in 1..(k - 1) : ~MatchAt(t, m)
           j == RunEnd(t, i)
       IN << SubSeq(t, i, j), SubSeq(t, j + 2, RunEnd(t, j + 2)) >>
  ELSE << >>

RECURSIVE parse_unsigned_int(_)
parse_unsigned_int(s) ==
  IF s = << >> THEN 0
  ELSE 10 * parse_unsigned_int(SubSeq(s, 1, Len(s) - 1)) + DigitVal(s[Len(s)])

parse_qemu_version(h) ==
  LET h0 == [h EXCEPT !.qemu_version_major = 0, !.qemu_version_minor = 0]
  IN IF IsNull(h.qemu_version) THEN h0
     ELSE LET m == match2(h.qemu_version[1])
          IN IF m = << >> THEN h0
             ELSE [h0 EXCEPT !.qemu_version_major = parse_unsigned_int(m[1]),
                             !.qemu_version_minor = parse_unsigned_int(m[2])]

\* how running "qemu -nographic -help" can end: the command cannot be run,
\* it exits non-zero (the stdout callback may or may not have stored the
\* output), or it exits 0
ProbeOutcomes ==
  { [run |-> "fail", help |-> NULL] }
  \cup { [run |-> "nonzero", help |-> h] : h \in {NULL} \cup {Some(t) : t \in HelpTexts} }
  \cup { [run |-> "ok", help |-> Some(t)] : t \in HelpTexts }

\* what a call emits: an error message (error, perrorf,
\* guestfs___external_command_failed, guestfs___launch_failed_error), a
\* warning on stderr, a progress event, a run of the qemu binary
Emit(tag, n) == [tag |-> tag, n |-> n]
Error == Emit("error", -1)
UidWarning == Emit("warning", -1)
Progress(n) == Emit("progress", n)
RunQemu == Emit("run qemu", -1)

\* a failed step emits an error message
ErrorIf(failed, l) == IF failed THEN l \cup {Error} ELSE l

\* lines 876, 893, 930: the cached text is not there, run the probe
NeedsProbe_Always(text) == TRUE
NeedsProbe(text) == IsNull(text)

\* already probed: nothing runs
Cached(h) == [g |-> h, r |-> 0, log |-> {}]

\* test_qemu: the new handle, the return value and what it emitted
test_qemu(h, out) ==
  LET h1 == [h EXCEPT !.qemu_help = out.help, !.qemu_version = NULL,
                      !.qemu_devices = NULL]
  IN IF out.run # "ok"
     THEN [g |-> h1, r |-> -1, log |-> ErrorIf(out.run = "nonzero", {RunQemu})]
     ELSE [g |-> [parse_qemu_version([h1 EXCEPT !.qemu_version = Some(<< >>)])
                    EXCEPT !.qemu_devices = Some(<< >>)],
           r |-> 0, log |-> {RunQemu}]

\* strstr (text, s) != NULL
RECURSIVE strstr(_, _)
strstr(text, s) ==
  IF Len(s) > Len(text) THEN FALSE
  ELSE IF SubSeq(text, 1, Len(s)) = s THEN TRUE
  ELSE strstr(Tail(text), s)

\* qemu_supports (g, option); option NULL only runs the probe
qemu_supports(h, option, out) ==
  LET t == IF NeedsProbe(h.qemu_help) THEN test_qemu(h, out) ELSE Cached(h)
  IN IF t.r = -1 THEN [t EXCEPT !.r = -1]
     ELSE IF IsNull(option) THEN [t EXCEPT !.r = 1]
     ELSE [t EXCEPT !.r = IF strstr(t.g.qemu_help[1], option[1]) THEN 1 ELSE 0]

qemu_supports_device(h, device_name, out) ==
  LET t == IF NeedsProbe(h.qemu_devices) THEN test_qemu(h, out) ELSE Cached(h)
  IN IF t.r = -1 THEN [t EXCEPT !.r = -1]
     ELSE [t EXCEPT !.r = IF strstr(t.g.qemu_devices[1], device_name) THEN 1 ELSE 0]

old_or_broken_virtio_scsi(h) ==
  h.qemu_version_major = 1 /\ h.qemu_version_minor < 2

VirtioScsiPci ==
  <<"v","i","r","t","i","o","-","s","c","s","i","-","p","c","i">>

\* qemu_supports_virtio_scsi: 1 = use virtio-scsi, 0 = use virtio-blk
qemu_supports_virtio_scsi(h, out, out2) ==
  LET t == IF NeedsProbe(h.qemu_help) THEN test_qemu(h, out) ELSE Cached(h)
  IN IF t.r = -1 THEN [t EXCEPT !.r = 0]
     ELSE IF t.g.virtio_scsi # 0
          THEN [t EXCEPT !.r = IF t.g.virtio_scsi = 1 THEN 1 ELSE 0]
     ELSE IF old_or_broken_virtio_scsi(t.g)
          THEN [t EXCEPT !.g = [t.g EXCEPT !.virtio_scsi = 2], !.r = 0]
     ELSE LET d == qemu_supports_device(t.g, VirtioScsiPci, out2)
              v == IF d.r > 0 THEN 1 ELSE IF d.r = 0 THEN 2 ELSE 3
          IN [g |-> [d.g EXCEPT !.virtio_scsi = v], r |-> IF v = 1 THEN 1 ELSE 0,
              log |-> t.log \cup d.log]

(* ------------------------- appliance device name ------------------------ *)
Letters == <<"a","b","c","d","e","f","g","h","i","j","k","l","m","n","o","p","q","r","s","t","u","v","w","x","y","z">>
Ide == <<"i","d","e">>
Virtio == <<"v","i","r","t","i","o">>

\* guestfs___drive_name (index, ret): the base-26 letters of a drive index,
\* 0 -> a, 25 -> z, 26 -> aa
RECURSIVE drive_name(_)
drive_name(index) ==
  IF index >= 26
  THEN Append(drive_name((index \div 26) - 1), Letters[(index % 26) + 1])
  ELSE << Letters[index + 1] >>

\* lines 721-730: does the drive count for the index of the appliance disk
OnApplianceBus_All(drv, virtio_scsi) == TRUE
OnApplianceBus(drv, virtio_scsi) ==
  IF virtio_scsi # 0
  THEN IsNull(drv.iface) \/ drv.iface[1] = Ide
  ELSE IsNull(drv.iface) \/ drv.iface[1] # Virtio

\* lines 714-737
make_appliance_dev(h, virtio_scsi) ==
  LET index == Cardinality({ i \in 1..Len(h.drives) :
                             OnApplianceBus(h.drives[i], virtio_scsi) })
      dev == [ <<"/","d","e","v","/","X","d">> EXCEPT ![6] = IF virtio_scsi # 0 THEN "s" ELSE "v" ]
  IN dev \o drive_name(index)

(* --------------------------- qemu_drive_param --------------------------- *)
\* the path copied as it is
EscapePath_Plain(path) == path

\* lines 979-986: the path with every "," doubled
RECURSIVE EscapePath(_)
EscapePath(path) ==
  IF path = << >> THEN << >>
  ELSE IF Head(path) = "," THEN << ",", "," >> \o EscapePath(Tail(path))
  ELSE << Head(path) >> \o EscapePath(Tail(path))

\* lines 995-1003, the arguments of snprintf: cond ? text : "" and
\* p ? p : ""
Opt(cond, text) == IF cond THEN text ELSE << >>
OrEmpty(p) == IF IsNull(p) THEN << >> ELSE p[1]

\* lines 958-1006; index is not used by the function; out is how a probe
\* ends that the function has to run
qemu_drive_param(h, drv, out) ==
  LET q == IF IsNull(drv.iface) THEN qemu_supports_virtio_scsi(h, out, out)
           ELSE Cached(h)
      iface == IF ~IsNull(drv.iface) THEN drv.iface[1]
               ELSE IF q.r = 1 THEN <<"n","o","n","e">>
               ELSE Virtio
  IN [g |-> q.g, log |-> q.log,
      r |-> <<"f","i","l","e","=">> \o EscapePath(drv.path)
            \o Opt(drv.readonly, <<",","s","n","a","p","s","h","o","t","=","o","n">>)
            \o Opt(drv.use_cache_none, <<",","c","a","c","h","e","=","n","o","n","e">>)
            \o Opt(~IsNull(drv.format), <<",","f","o","r","m","a","t","=">>)
            \o OrEmpty(drv.format)
            \o Opt(~IsNull(drv.disk_label), <<",","s","e","r","i","a","l","=">>)
            \o OrEmpty(drv.disk_label)
            \o <<",","i","f","=">> \o iface]

(* ---------------------- the command line of the child ------------------- *)
\* lines 94-100: the vector starts with the path of the qemu binary
alloc_cmdline(h) == << h.qemu.path >>

\* strchr (s, c) on the text that starts at index from: the index of the
\* first c, 0 when there is none (NULL)
RECURSIVE strchr(_, _, _)
strchr(s, from, c) ==
  IF from > Len(s) THEN 0
  ELSE IF s[from] = c THEN from
  ELSE strchr(s, from + 1, c)

\* line 162: while (*nextp && *nextp == ' ') nextp++
RECURSIVE SkipSpaces(_, _)
SkipSpaces(s, nextp) ==
  IF nextp <= Len(s) /\ s[nextp] = " " THEN SkipSpaces(s, nextp + 1) ELSE nextp

\* safe_strndup (startp, n): n is a size_t, so a negative difference of
\* pointers is a count beyond any string, and the copy ends at the NUL
safe_strndup(s, startp, n) ==
  IF n < 0 \/ startp + n - 1 > Len(s) THEN SubSeq(s, startp, Len(s))
  ELSE SubSeq(s, startp, startp + n - 1)

\* lines 120-171; options is the index in s of the pointer options, Len(s) + 1
\* is the NUL; exited: the child has called _exit (EXIT_FAILURE); null: the
\* vector ends with the NULL pointer (lines 466-467)
RECURSIVE add_cmdline_shell_unquoted(_, _, _)
add_cmdline_shell_unquoted(cmdline, s, options) ==
  IF options > Len(s) THEN [cmdline |-> cmdline, exited |-> FALSE, null |-> FALSE]
  ELSE LET quoted == s[options] \in { "'", "\"" }
           quote == IF quoted THEN s[options] ELSE " "
           startp == IF quoted THEN options + 1 ELSE options
           found == strchr(s, options, quote)
           endp == IF found = 0 THEN Len(s) + 1 ELSE found
           nextp == IF quote = " "
                    THEN IF endp > Len(s) THEN endp ELSE endp + 1
                    ELSE IF endp + 1 > Len(s) THEN endp + 1 ELSE endp + 2
       IN IF found = 0 /\ quote # " "
          THEN [cmdline |-> cmdline, exited |-> TRUE, null |-> FALSE]
          ELSE IF quote # " " /\ endp + 1 <= Len(s) /\ s[endp + 1] # " "
          THEN [cmdline |-> cmdline, exited |-> TRUE, null |-> FALSE]
          ELSE add_cmdline_shell_unquoted(
                 Append(cmdline, safe_strndup(s, startp, endp - startp)),
                 s, SkipSpaces(s, nextp))

\* snprintf "%d" / "%zu" of a number that is not negative
RECURSIVE Decimal(_)
Decimal(n) ==
  IF n < 10 THEN << <<"0","1","2","3","4","5","6","7","8","9">>[n + 1] >>
  ELSE Append(Decimal(n \div 10), <<"0","1","2","3","4","5","6","7","8","9">>[(n % 10) + 1])

\* the kernel, initrd and appliance image that guestfs___build_appliance
\* found (lines 198-199)
KernelPath == <<"/","k">>
InitrdPath == <<"/","i">>
AppliancePath == <<"/","r">>

\* if (qemu_supports (g, option)): -1, the probe failed, counts as true
Has(h, option, out) == qemu_supports(h, Some(option), out).r # 0

\* the element of a set of one element: binds a result that is used more
\* than once
The(s) == CHOOSE x \in s : TRUE

\* lines 378-391, ITER_DRIVES from the drive with index i - 1 on; buf is what
\* qemu_drive_param returns and the handle it leaves
RECURSIVE add_drives(_, _, _, _, _)
add_drives(cmdline, h, i, virtio_scsi, out) ==
  IF i > Len(h.drives) THEN cmdline
  ELSE The({ add_drives(
               cmdline
                 \o << <<"-","d","r","i","v","e">>, buf.r >>
                 \o Opt(virtio_scsi # 0 /\ IsNull(buf.g.drives[i].iface),
                        << <<"-","d","e","v","i","c","e">>, <<"s","c","s","i","-","h","d",",","d","r","i","v","e","=","h","d">> \o Decimal(i - 1) >>),
               buf.g, i + 1, virtio_scsi, out) :
             buf \in { qemu_drive_param(h, h.drives[i], out) } })

\* lines 393-413: the drive of the appliance
appliance_drive(h, virtio_scsi, out) ==
  << <<"-","d","r","i","v","e">>,
     <<"f","i","l","e","=">> \o AppliancePath \o <<",","s","n","a","p","s","h","o","t","=","o","n",",","i","f","=">>
       \o (IF virtio_scsi # 0 THEN <<"n","o","n","e">> ELSE Virtio)
       \o (IF Has(h, <<"c","a","c","h","e","=">>, out)
           THEN IF Has(h, <<"u","n","s","a","f","e">>, out) THEN <<",","c","a","c","h","e","=","u","n","s","a","f","e">>
                ELSE IF Has(h, <<"w","r","i","t","e","b","a","c","k">>, out) THEN <<",","c","a","c","h","e","=","w","r","i","t","e","b","a","c","k">>
                ELSE << >>
           ELSE << >>) >>
  \o Opt(virtio_scsi # 0, << <<"-","d","e","v","i","c","e">>, <<"s","c","s","i","-","h","d",",","d","r","i","v","e","=","a","p","p","l","i","a","n","c","e">> >>)

\* lines 372-376 left out: the virtio-scsi bus is not created
drive_args_NoBus(cmdline, h, virtio_scsi, has_drive, out) ==
  add_drives(cmdline, h, 1, virtio_scsi, out)
  \o Opt(has_drive, appliance_drive(h, virtio_scsi, out))

\* lines 368-416: the drives of the handle, then the appliance
drive_args(cmdline, h, virtio_scsi, has_drive, out) ==
  add_drives(cmdline
               \o Opt(virtio_scsi # 0,
                      << <<"-","d","e","v","i","c","e">>, <<"v","i","r","t","i","o","-","s","c","s","i","-","p","c","i",",","i","d","=","s","c","s","i">> >>),
             h, 1, virtio_scsi, out)
  \o Opt(has_drive, appliance_drive(h, virtio_scsi, out))

\* lines 282-366: the options before the drives; kvm: /dev/kvm can be opened
head_args(h, kvm, out) ==
  alloc_cmdline(h)
  \o Opt(Has(h, <<"-","g","l","o","b","a","l">>, out), << <<"-","g","l","o","b","a","l">>, <<"v","i","r","t","i","o","-","b","l","k","-","p","c","i",".","s","c","s","i","=","o","f","f">> >>)
  \o Opt(Has(h, <<"-","n","o","d","e","f","c","o","n","f","i","g">>, out), << <<"-","n","o","d","e","f","c","o","n","f","i","g">> >>)
  \o Opt(Has(h, <<"-","n","o","d","e","f","a","u","l","t","s">>, out), << <<"-","n","o","d","e","f","a","u","l","t","s">> >>)
  \o << <<"-","n","o","g","r","a","p","h","i","c">> >>
  \o (IF Has(h, <<"-","m","a","c","h","i","n","e">>, out) THEN << <<"-","m","a","c","h","i","n","e">>, <<"a","c","c","e","l","=","k","v","m",":","t","c","g">> >>
      ELSE Opt(Has(h, <<"-","e","n","a","b","l","e","-","k","v","m">>, out) /\ kvm, << <<"-","e","n","a","b","l","e","-","k","v","m">> >>))
  \o Opt(h.smp > 1, << <<"-","s","m","p">>, Decimal(h.smp) >>)
  \o << <<"-","m">>, Decimal(h.memsize), <<"-","n","o","-","r","e","b","o","o","t">> >>
  \o Opt(Has(h, <<"-","n","o","-","h","p","e","t">>, out), << <<"-","n","o","-","h","p","e","t">> >>)
  \o Opt(Has(h, <<"-","r","t","c","-","t","d","-","h","a","c","k">>, out), << <<"-","r","t","c","-","t","d","-","h","a","c","k">> >>)
  \o << <<"-","k","e","r","n","e","l">>, KernelPath, <<"-","i","n","i","t","r","d">>, InitrdPath >>

\* the port in the byte order getsockname left it in (no ntohs)
vmchannel_NetworkOrder(port) ==
  <<"g","u","e","s","t","f","s","_","v","m","c","h","a","n","n","e","l","=","t","c","p",":","1","0",".","0",".","2",".","2",":">> \o Decimal(htons(port))

\* lines 428-431: "guestfs_vmchannel=tcp:" ROUTER ":%d"
\* port is the local null_vmchannel_port
vmchannel(port) ==
  <<"g","u","e","s","t","f","s","_","v","m","c","h","a","n","n","e","l","=","t","c","p",":","1","0",".","0",".","2",".","2",":">> \o Decimal(port)

\* guestfs___appliance_command_line (g, appliance_dev, 0, vmchannel): the
\* kernel command line holds the root device, if there is one, and vmchannel
appliance_command_line(appliance_dev, channel) ==
  Opt(~IsNull(appliance_dev), <<"r","o","o","t","=">> \o OrEmpty(appliance_dev) \o <<" ">>)
  \o channel

\* lines 418-446 (VALGRIND_DAEMON is not defined)
tail_args(appliance_dev, port) ==
  << <<"-","s","e","r","i","a","l">>, <<"s","t","d","i","o">>,
     <<"-","n","e","t">>, <<"u","s","e","r",",","v","l","a","n","=","0",",","n","e","t","=","1","0",".","0",".","2",".","0","/","2","4">>,
     <<"-","n","e","t">>, <<"n","i","c",",","m","o","d","e","l","=","v","i","r","t","i","o",",","v","l","a","n","=","0">>,
     <<"-","a","p","p","e","n","d">>,
     appliance_command_line(appliance_dev, vmchannel(port)) >>

\* lines 459-463: the parameters registered on the handle, from the first on
RECURSIVE qemu_params_args(_)
qemu_params_args(qp) ==
  IF qp = << >> THEN << >>
  ELSE << Head(qp).qemu_param >>
       \o Opt(~IsNull(Head(qp).qemu_value), << OrEmpty(Head(qp).qemu_value) >>)
       \o qemu_params_args(Tail(qp))

\* lines 282-446: what the launcher itself puts on the command line
launcher_args(h, virtio_scsi, has_drive, kvm, port, out) ==
  drive_args(head_args(h, kvm, out), h, virtio_scsi, has_drive, out)
  \o tail_args(IF has_drive THEN Some(make_appliance_dev(h, virtio_scsi))
               ELSE NULL,
               port)

\* lines 459-463 placed before line 456: the parameters of the handle first
extra_args_First(cmdline, h, QEMU_OPTIONS) ==
  The({ IF q.exited THEN q
        ELSE [cmdline |-> q.cmdline, exited |-> FALSE, null |-> TRUE] :
        q \in { add_cmdline_shell_unquoted(
                  cmdline \o qemu_params_args(h.qemu_params), QEMU_OPTIONS, 1) } })

\* lines 455-467: QEMU_OPTIONS, the parameters of the handle, the NULL
extra_args(cmdline, h, QEMU_OPTIONS) ==
  The({ IF q.exited THEN q
        ELSE [cmdline |-> q.cmdline \o qemu_params_args(h.qemu_params),
              exited |-> FALSE, null |-> TRUE] :
        q \in { add_cmdline_shell_unquoted(cmdline, QEMU_OPTIONS, 1) } })

\* lines 274-467: the command line that the child builds on its copy h of the
\* handle; bus is the call of line 276
child_cmdline(h, has_drive, kvm, port, QEMU_OPTIONS, out) ==
  The({ extra_args(
          launcher_args(bus.g, bus.r, has_drive, kvm, port, out),
          bus.g, QEMU_OPTIONS) :
        bus \in { qemu_supports_virtio_scsi(h, out, out) } })

(* ------------------- launch_appliance, parent side --------------------- *)
Lib(at) == pc = at /\ LibAlive

\* line 190: no drive was added
NoDrives_Never(h) == FALSE

NoDrives(h) == h.nr_drives = 0

\* the variables launch_appliance never writes outside the named steps
UnchangedEnv == UNCHANGED << wd, pre, status >>

\* lines 187-195; the caller (guestfs_launch) has checked state == CONFIG and
\* started the launch timer
LaunchEnter ==
  /\ Lib("idle")
  /\ g.state = "CONFIG"
  /\ cnt.launch < MaxLaunches
  /\ cnt' = [cnt EXCEPT !.launch = @ + 1, !.accept = 0, !.calls = 0]
  /\ g' = [g EXCEPT !.launch_t = 1]
  /\ pre' = g'
  /\ syslog' = << >>
  /\ log' = IF NoDrives(g) THEN {Error} ELSE {Progress(0)}
  /\ fds' = [fds EXCEPT !.launch = {}, !.dbl = {}]
  /\ auth' = NoAuth
  /\ wfd' = << -1, -1 >> /\ rfd' = << -1, -1 >> /\ r' = 0 /\ size' = "none"
  /\ has_appliance_drive' = FALSE
  /\ IF NoDrives(g)
     THEN Return("launch", -1)
     ELSE pc' = "build" /\ ret' = 0 /\ lastOp' = << >>
  /\ status' = "none"
  /\ proc' = Forget(proc)
  /\ wd' = IF wd.pc = "done" THEN NoWd ELSE wd
  /\ child' = NoChild /\ null_vmchannel_port' = 0

\* lines 199-206: guestfs___build_appliance
BuildAppliance ==
  /\ Lib("build")
  /\ \E ok \in BOOLEAN, app \in BOOLEAN :
       IF ok
       THEN /\ has_appliance_drive' = app
            /\ pc' = "probe"
            /\ UNCHANGED << ret, lastOp, wfd, rfd, r, cnt >>
       ELSE LaunchReturn(-1)
  /\ UNCHANGED << g, size, fds, proc, syslog, auth >>
  /\ log' = IF pc' = "probe" THEN log \cup {Progress(3)} ELSE log
  /\ UnchangedEnv
  /\ UNCHANGED << child, null_vmchannel_port >>

\* lines 211-213: qemu_supports (g, NULL)
Probe ==
  /\ Lib("probe")
  /\ \E out \in ProbeOutcomes :
       LET q == qemu_supports(g, NULL, out)
       IN /\ g' = q.g
          /\ log' = log \cup q.log
          /\ pc' = IF q.r = -1 THEN "cleanup0" ELSE "socket"
  /\ UNCHANGED << wfd, rfd, r, has_appliance_drive, size, ret, lastOp, fds,
                  proc, syslog, auth, cnt >>
  /\ UnchangedEnv
  /\ UNCHANGED << child, null_vmchannel_port >>

\* lines 220-224: socket
Socket ==
  /\ Lib("socket")
  /\ \E ok \in BOOLEAN :
       IF ok
       THEN /\ g' = [g EXCEPT !.sock = NewFd(fds)]
            /\ fds' = OpenFd(fds)
            /\ pc' = "bind"
       ELSE /\ g' = [g EXCEPT !.sock = -1]
            /\ fds' = fds
            /\ pc' = "cleanup0"
  /\ UNCHANGED << wfd, rfd, r, has_appliance_drive, size, ret, lastOp,
                  proc, syslog, auth, cnt >>
  /\ log' = ErrorIf(pc' \in {"cleanup0", "cleanup1"}, log)
  /\ UnchangedEnv
  /\ UNCHANGED << child, null_vmchannel_port >>

\* one of the calls on the listening socket that only succeed or fail
SockStep(at, next) ==
  /\ Lib(at)
  /\ \E ok \in BOOLEAN : pc' = IF ok THEN next ELSE "cleanup0"
  /\ UNCHANGED << g, wfd, rfd, r, has_appliance_drive, size, ret, lastOp, fds,
                  proc, syslog, auth, cnt >>
  /\ log' = ErrorIf(pc' \in {"cleanup0", "cleanup1"}, log)
  /\ UnchangedEnv
  /\ UNCHANGED << child, null_vmchannel_port >>

\* lines 226-232
Bind == SockStep("bind", "listen")
\* lines 234-237
Listen == SockStep("listen", "getsockname")
\* lines 239-242
Getsockname == SockStep("getsockname", "fcntl")

\* lines 244-250
FcntlSock ==
  /\ Lib("fcntl")
  /\ \E ok \in BOOLEAN :
       IF ok
       THEN /\ fds' = SetNonblock(fds, g.sock) /\ pc' = "pipe"
            /\ null_vmchannel_port' = ntohs(htons(ListenPort))
       ELSE /\ fds' = fds /\ pc' = "cleanup0"
            /\ null_vmchannel_port' = null_vmchannel_port
  /\ UNCHANGED << g, wfd, rfd, r, has_appliance_drive, size, ret, lastOp,
                  proc, syslog, auth, cnt >>
  /\ log' = ErrorIf(pc' \in {"cleanup0", "cleanup1"}, log)
  /\ UnchangedEnv
  /\ UNCHANGED child

\* lines 252-257: pipe (wfd) == -1 || pipe (rfd) == -1
Pipe ==
  /\ Lib("pipe")
  /\ IF g.direct
     THEN pc' = "fork" /\ UNCHANGED << wfd, rfd, fds >>
     ELSE \E out \in {"wfd fails", "rfd fails", "ok"} :
            LET f1 == OpenFd(fds)
                w0 == NewFd(fds)
                f2 == OpenFd(f1)
                w1 == NewFd(f1)
                f3 == OpenFd(f2)
                r0 == NewFd(f2)
                f4 == OpenFd(f3)
                r1 == NewFd(f3)
            IN CASE out = "wfd fails" ->
                      pc' = "cleanup0" /\ UNCHANGED << wfd, rfd, fds >>
                 [] out = "rfd fails" ->
                      /\ pc' = "cleanup0"
                      /\ wfd' = << w0, w1 >> /\ fds' = f2
                      /\ UNCHANGED rfd
                 [] out = "ok" ->
                      /\ pc' = "fork"
                      /\ wfd' = << w0, w1 >> /\ rfd' = << r0, r1 >>
                      /\ fds' = f4
  /\ UNCHANGED << g, r, has_appliance_drive, size, ret, lastOp,
                  proc, syslog, auth, cnt >>
  /\ log' = ErrorIf(pc' \in {"cleanup0", "cleanup1"}, log)
  /\ UnchangedEnv
  /\ UNCHANGED << child, null_vmchannel_port >>

\* lines 274-446: the child, on its copy of the handle: the disk bus
\* (line 276), then the appliance device name (line 415) that goes to
\* guestfs___appliance_command_line (line 446); out is how a probe ends that
\* the child has to run itself
ChildDecides(h, has_drive, port, out) ==
  LET q == qemu_supports_virtio_scsi(h, out, out)
  IN [forked |-> TRUE, virtio_scsi |-> q.r, g_virtio_scsi |-> q.g.virtio_scsi,
      appliance_dev |-> IF has_drive THEN Some(make_appliance_dev(q.g, q.r))
                        ELSE NULL,
      vmchannel |-> vmchannel(port)]

\* lines 262-272 and 515-516: fork of the VM child, parent side
ForkVm ==
  /\ Lib("fork")
  /\ \E ok \in BOOLEAN :
       IF ok
       THEN /\ r' = VmPid(cnt.launch)
            /\ proc' = proc @@ (VmPid(cnt.launch) :> "running")
            /\ g' = [g EXCEPT !.app_pid = VmPid(cnt.launch)]
            /\ fds' = fds
            /\ pc' = "forkrecovery"
            /\ \E out \in ProbeOutcomes :
                 child' = ChildDecides(g, has_appliance_drive,
                                       null_vmchannel_port, out)
       ELSE /\ r' = -1
            /\ child' = child
            /\ fds' = IF g.direct THEN fds
                      ELSE CloseAll(fds, << wfd[1], wfd[2], rfd[1], rfd[2] >>)
            /\ pc' = "cleanup0"
            /\ UNCHANGED << proc, g >>
  /\ UNCHANGED << wfd, rfd, has_appliance_drive, size, ret, lastOp,
                  syslog, auth, cnt, wd, pre, status >>
  /\ log' = ErrorIf(pc' \in {"cleanup0", "cleanup1"}, log)
  /\ null_vmchannel_port' = null_vmchannel_port

\* lines 518-586: fork of the recovery process, parent side
ForkRecovery ==
  /\ Lib("forkrecovery")
  /\ IF g.recovery_proc
     THEN \E ok \in BOOLEAN :
            IF ok
            THEN /\ r' = WdPid(cnt.launch)
                 /\ proc' = proc @@ (WdPid(cnt.launch) :> "running")
                 /\ wd' = [NoWd EXCEPT !.pc = "getppid", !.pid = WdPid(cnt.launch),
                                       !.qemu_pid = g.app_pid]
                 /\ g' = [g EXCEPT !.app_recoverypid = WdPid(cnt.launch)]
            ELSE /\ r' = -1
                 /\ g' = [g EXCEPT !.app_recoverypid = -1]
                 /\ UNCHANGED << proc, wd >>
     ELSE /\ g' = [g EXCEPT !.app_recoverypid = -1]
          /\ UNCHANGED << r, proc, wd >>
  /\ pc' = "plumb"
  /\ UNCHANGED << wfd, rfd, has_appliance_drive, size, ret, lastOp, fds,
                  syslog, log, auth, cnt, pre, status >>
  /\ UNCHANGED << child, null_vmchannel_port >>

\* lines 588-604: the parent's pipe ends, then state = LAUNCHING
Plumb ==
  /\ Lib("plumb")
  /\ IF g.direct
     THEN /\ g' = [g EXCEPT !.state = "LAUNCHING"]
          /\ pc' = "accept"
          /\ UNCHANGED << wfd, rfd, fds >>
     ELSE LET f1 == CloseAll(fds, << wfd[1], rfd[2] >>)
          IN \E out \in {"wfd fails", "rfd fails", "ok"} :
               CASE out = "wfd fails" ->
                      /\ fds' = f1 /\ pc' = "cleanup1"
                      /\ UNCHANGED << g, wfd, rfd >>
                 [] out = "rfd fails" ->
                      /\ fds' = SetNonblock(f1, wfd[2]) /\ pc' = "cleanup1"
                      /\ UNCHANGED << g, wfd, rfd >>
                 [] out = "ok" ->
                      /\ fds' = SetNonblock(SetNonblock(f1, wfd[2]), rfd[1])
                      /\ g' = [g EXCEPT !.fd = << wfd[2], rfd[1] >>,
                                        !.state = "LAUNCHING"]
                      /\ wfd' = << wfd[1], -1 >> /\ rfd' = << -1, rfd[2] >>
                      /\ pc' = "accept"
  /\ UNCHANGED << r, has_appliance_drive, size, ret, lastOp,
                  proc, syslog, auth, cnt >>
  /\ log' = ErrorIf(pc' \in {"cleanup0", "cleanup1"}, log)
  /\ UnchangedEnv
  /\ UNCHANGED << child, null_vmchannel_port >>

(* ----------------------------- check_peer_euid -------------------------- *)
LoopbackN == htonl(INADDR_LOOPBACK)

\* one data line of /proc/net/tcp: n is the number of fields sscanf converts,
\* addresses are raw network-order words, ports are in host byte order
Row(n, la, lp, ra, rp, uid) ==
  [n |-> n, our_addr |-> la, our_port |-> lp, peer_addr |-> ra,
   peer_port |-> rp, uid |-> uid]

\* the rows the kernel shows for a connection from peer port pp: the
\* listening socket, the accepted endpoint (owned by uid own) and the
\* connecting endpoint (owned by uid peer); decoys are rows of other sockets
ListenRow(u) == Row(12, LoopbackN, ListenPort, 0, 0, u)
AcceptedRow(pp, own) == Row(12, LoopbackN, ListenPort, LoopbackN, pp, own)
PeerRow(pp, peer) == Row(12, LoopbackN, pp, LoopbackN, ListenPort, peer)
SwappedRow(pp, u) == Row(12, LoopbackN, ntohs(ListenPort), LoopbackN, ntohs(pp), u)
ShortRow(pp, u) == Row(11, LoopbackN, ListenPort, LoopbackN, pp, u)

Tables(pp, own, peer, host) ==
  [ both      |-> << ListenRow(host), AcceptedRow(pp, own), PeerRow(pp, peer) >>,
    decoys    |-> << SwappedRow(pp, peer), ShortRow(pp, peer), ListenRow(host),
                     PeerRow(pp, peer), AcceptedRow(pp, own) >>,
    noRow     |-> << ListenRow(host), PeerRow(pp, peer) >> ]

\* an accepted socket as the kernel describes it: getpeername, getsockname
\* (sin_port in network byte order) and the TCP table; peer_uid is the uid of
\* the connecting process; the table is wellformed when it holds the rows of
\* both endpoints, each with the uid of the process that owns the endpoint
Conn(family, addr, pp, own, peer, shape, fault, host) ==
  [ family |-> family, peer_addr |-> addr, peer_port |-> htons(pp),
    our_addr |-> LoopbackN, our_port |-> htons(ListenPort),
    table |-> Tables(pp, own, peer, host)[shape], fault |-> fault,
    peer_uid |-> peer,
    wellformed |-> /\ own = host /\ shape # "noRow" /\ fault = "none"
                   /\ family = AF_INET /\ addr = LoopbackN ]

ConnChoices(host) ==
  { Conn(AF_INET, LoopbackN, PeerPort, own, peer, shape, "none", host) :
      own \in Uids, peer \in Uids, shape \in {"both", "decoys"} }
  \cup { Conn(AF_INET, LoopbackN, PeerPort, host, peer, "noRow", "none", host) :
           peer \in Uids }
  \cup { Conn(AF_INET, LoopbackN, PeerPort, host, host, "both", fault, host) :
           fault \in {"getpeername", "getsockname", "fopen", "eof"} }
  \cup { Conn(fam, addr, PeerPort, host, host, "both", "none", host) :
           fam \in Families, addr \in {LoopbackN, htonl(OtherAddr)} }

\* lines 1069-1072: does the table line describe this socket
LineMatches(line, c) ==
  /\ line.n = 12
  /\ line.our_addr = c.our_addr
  /\ line.our_port = ntohs(c.our_port)
  /\ line.peer_addr = c.peer_addr
  /\ line.peer_port = ntohs(c.peer_port)

\* check_peer_euid: r is the return value, uid is *rtn
check_peer_euid(c) ==
  IF c.fault = "getpeername" THEN [r |-> -1, uid |-> -1]
  ELSE IF c.family # AF_INET \/ ntohl(c.peer_addr) # INADDR_LOOPBACK
       THEN [r |-> -1, uid |-> -1]
  ELSE IF c.fault \in {"getsockname", "fopen", "eof"} THEN [r |-> -1, uid |-> -1]
  ELSE IF \E i \in 1..Len(c.table) : LineMatches(c.table[i], c)
       THEN LET i == CHOOSE k \in 1..Len(c.table) :
                       /\ LineMatches(c.table[k], c)
                       /\ \A m \in 1..(k - 1) : ~LineMatches(c.table[m], c)
            IN [r |-> 0, uid |-> c.table[i].uid]
  ELSE [r |-> -1, uid |-> -1]

(* ------------------- launch_appliance: accept to return ----------------- *)
\* line 621: is the connection from another user
Unexpected_Never(uid, host) == FALSE

Unexpected(uid, host) == uid # host

\* lines 622-626: after the warning the loop leaves the launch at cleanup1
AfterMismatch_GiveUp == "cleanup1"

\* lines 625-626: r = -1; continue; the loop condition sends it to accept again
AfterMismatch == "accept"

\* lines 611-629: one iteration of the accept loop: accept_from_daemon, then
\* check_peer_euid on the accepted socket c
Accept ==
  /\ Lib("accept")
  /\ \/ /\ r' = -1
        /\ pc' = "cleanup1"
        /\ auth' = [auth EXCEPT !.expect = -1]
        /\ UNCHANGED << fds, cnt, log >>
     \/ /\ cnt.accept < MaxAccepts
        /\ cnt' = [cnt EXCEPT !.accept = @ + 1]
        /\ \E c \in ConnChoices(geteuid) :
             LET a == check_peer_euid(c)
                 fd == NewFd(fds)
             IN /\ auth' = [r |-> a.r, uid |-> a.uid, fd |-> fd,
                            installed |-> FALSE,
                            expect |-> IF c.wellformed THEN c.peer_uid ELSE -1]
                /\ IF a.r = -1
                   THEN /\ r' = fd /\ fds' = OpenFd(fds) /\ pc' = "cleanup1"
                        /\ log' = log \cup {Error}
                   ELSE IF Unexpected(a.uid, geteuid)
                   THEN /\ fds' = Close(OpenFd(fds), fd)
                        /\ r' = -1
                        /\ pc' = AfterMismatch
                        /\ log' = log \cup {UidWarning}
                   ELSE /\ r' = fd /\ fds' = OpenFd(fds) /\ pc' = "closelisten"
                        /\ log' = log
  /\ UNCHANGED << g, wfd, rfd, has_appliance_drive, size, ret, lastOp,
                  proc, syslog >>
  /\ UnchangedEnv
  /\ UNCHANGED << child, null_vmchannel_port >>

\* lines 631-638: close the listening socket, install the data socket
CloseListen ==
  /\ Lib("closelisten")
  /\ \E ok \in BOOLEAN :
       IF ok
       THEN /\ fds' = Close(fds, g.sock)
            /\ g' = [g EXCEPT !.sock = r]
            /\ auth' = [auth EXCEPT !.installed = TRUE, !.expect = -1]
            /\ pc' = "nonblock"
       ELSE /\ fds' = Close(Close(fds, g.sock), r)
            /\ g' = [g EXCEPT !.sock = -1]
            /\ auth' = [auth EXCEPT !.expect = -1]
            /\ pc' = "cleanup1"
  /\ UNCHANGED << wfd, rfd, r, has_appliance_drive, size, ret, lastOp,
                  proc, syslog, cnt >>
  /\ log' = ErrorIf(pc' \in {"cleanup0", "cleanup1"}, log)
  /\ UnchangedEnv
  /\ UNCHANGED << child, null_vmchannel_port >>

\* lines 640-643
Nonblock ==
  /\ Lib("nonblock")
  /\ \E ok \in BOOLEAN :
       IF ok
       THEN fds' = SetNonblock(fds, g.sock) /\ pc' = "recv"
       ELSE fds' = fds /\ pc' = "cleanup1"
  /\ UNCHANGED << g, wfd, rfd, r, has_appliance_drive, size, ret, lastOp,
                  proc, syslog, auth, cnt >>
  /\ log' = ErrorIf(pc' \in {"cleanup0", "cleanup1"}, log)
  /\ UnchangedEnv
  /\ UNCHANGED << child, null_vmchannel_port >>

\* guestfs___recv_from_daemon: the return value, the size word, and the
\* handle state the framing layer leaves (READY on the launch flag, unless
\* the appliance went away just then)
recv_from_daemon(state) ==
  { [r |-> -1, size |-> "none", state |-> state] }
  \cup { [r |-> 0, size |-> sz, state |-> state] : sz \in {"CANCEL_FLAG", "length"} }
  \cup { [r |-> 0, size |-> "LAUNCH_FLAG", state |-> st] : st \in {"READY", state} }

\* lines 645-655
Recv ==
  /\ Lib("recv")
  /\ \E out \in recv_from_daemon(g.state) :
       /\ r' = out.r
       /\ size' = out.size
       /\ g' = [g EXCEPT !.state = out.state]
       /\ pc' = IF out.r = -1 \/ out.size # "LAUNCH_FLAG" THEN "cleanup1" ELSE "final"
  /\ UNCHANGED << wfd, rfd, has_appliance_drive, ret, lastOp, fds,
                  proc, syslog, auth, cnt >>
  /\ log' = ErrorIf(pc' \in {"cleanup0", "cleanup1"}, log)
  /\ UnchangedEnv
  /\ UNCHANGED << child, null_vmchannel_port >>

\* line 665: the daemon was contacted but the handle is not READY
NotReady_Never(h) == FALSE

NotReady(h) == h.state # "READY"

\* lines 665-677
Final ==
  /\ Lib("final")
  /\ IF NotReady(g)
     THEN /\ pc' = "cleanup1"
          /\ UNCHANGED << g, ret, lastOp, wfd, rfd, r, has_appliance_drive,
                          cnt >>
     ELSE /\ g' = IF has_appliance_drive
                  THEN [g EXCEPT !.nr_drives = @ + 1,
                                 !.drives = Append(@, DummyDrive)]
                  ELSE g
          /\ LaunchReturn(0)
  /\ UNCHANGED << size, fds, proc, syslog, auth >>
  /\ log' = IF pc' = "cleanup1" THEN log \cup {Error} ELSE log \cup {Progress(12)}
  /\ UnchangedEnv
  /\ UNCHANGED << child, null_vmchannel_port >>

(* ------------------------- processes and signals ------------------------ *)
Call(who, op, pid, sig) == [who |-> who, op |-> op, pid |-> pid, sig |-> sig]

\* waitpid (pid, ...) on a child that was killed or has exited: the child is
\* reaped; it fails (ECHILD) when the child is already gone
Reap(p, pid) ==
  IF pid \in DOMAIN p /\ p[pid] = "zombie" THEN [p EXCEPT ![pid] = "gone"] ELSE p

\* the recovery child once it has exited or has been killed
WdExited(w) == [NoWd EXCEPT !.pc = "done", !.pid = w.pid, !.qemu_pid = w.qemu_pid]

\* the recovery child after the library signalled pid with SIGKILL
WdAfterKill(w, pid) ==
  IF pid > 0 /\ w.pid = pid /\ w.pc \notin {"none", "done"}
  THEN WdExited(w)
  ELSE w

\* lines 680-683: the pipe ends cleanup1 closes
Cleanup1Pipes(f, direct, w, rd) ==
  IF direct THEN f
  ELSE LET f1 == IF w[2] >= 0 THEN Close(f, w[2]) ELSE f
       IN IF rd[2] >= 0 THEN Close(f1, rd[1]) ELSE f1

\* lines 684-687: the kill and waitpid calls of cleanup1, in order
Cleanup1Calls_NoWait(h) ==
  (IF h.app_pid > 0 THEN << Call("lib", "kill", h.app_pid, SIGKILL) >> ELSE << >>)
  \o (IF h.app_recoverypid > 0
      THEN << Call("lib", "kill", h.app_recoverypid, SIGKILL) >> ELSE << >>)

Cleanup1Calls(h) ==
  (IF h.app_pid > 0 THEN << Call("lib", "kill", h.app_pid, SIGKILL) >> ELSE << >>)
  \o (IF h.app_recoverypid > 0
      THEN << Call("lib", "kill", h.app_recoverypid, SIGKILL) >> ELSE << >>)
  \o (IF h.app_pid > 0 THEN << Call("lib", "waitpid", h.app_pid, 0) >> ELSE << >>)
  \o (IF h.app_recoverypid > 0
      THEN << Call("lib", "waitpid", h.app_recoverypid, 0) >> ELSE << >>)

\* the process table after a sequence of kill and waitpid calls
RECURSIVE Apply(_, _)
Apply(p, calls) ==
  IF calls = << >> THEN p
  ELSE LET c == Head(calls)
       IN Apply(IF c.op = "kill" THEN Deliver(p, c.pid, c.sig) ELSE Reap(p, c.pid),
                Tail(calls))

\* lines 679-694
Cleanup1 ==
  /\ Lib("cleanup1")
  /\ LET calls == Cleanup1Calls(g)
         f1 == Cleanup1Pipes(fds, g.direct, wfd, rfd)
         f2 == IF g.fd[1] >= 0 THEN Close(f1, g.fd[1]) ELSE f1
         f3 == IF g.fd[2] >= 0 THEN Close(f2, g.fd[2]) ELSE f2
     IN /\ syslog' = syslog \o calls
        /\ log' = log
        /\ proc' = Apply(proc, calls)
        /\ wd' = WdAfterKill(wd, g.app_recoverypid)
        /\ fds' = f3
        /\ g' = [g EXCEPT !.fd = << -1, -1 >>, !.app_pid = 0,
                          !.app_recoverypid = 0, !.launch_t = 0]
  /\ pc' = "cleanup0"
  /\ auth' = [auth EXCEPT !.expect = -1]
  /\ UNCHANGED << wfd, rfd, r, has_appliance_drive, size, ret, lastOp,
                  cnt, pre, status >>
  /\ UNCHANGED << child, null_vmchannel_port >>

\* lines 697-701: the handle cleanup0 leaves
Cleanup0Handle_KeepsState(h) == [h EXCEPT !.sock = -1]

Cleanup0Handle(h) == [h EXCEPT !.sock = -1, !.state = "CONFIG"]

\* lines 696-702
Cleanup0 ==
  /\ Lib("cleanup0")
  /\ fds' = IF g.sock >= 0 THEN Close(fds, g.sock) ELSE fds
  /\ g' = Cleanup0Handle(g)
  /\ LaunchReturn(-1)
  /\ size' = "none"
  /\ UNCHANGED << proc, syslog, log, auth >>
  /\ UnchangedEnv
  /\ UNCHANGED << child, null_vmchannel_port >>

(* --------------------------- shutdown_appliance ------------------------- *)
\* line 1096 without the test recoverypid > 0
ShutdownSignals_Unguarded(h) ==
  (IF h.app_pid > 0 THEN << Call("lib", "kill", h.app_pid, SIGTERM) >> ELSE << >>)
  \o << Call("lib", "kill", h.app_recoverypid, SIGKILL) >>

\* lines 1091-1096: the signals shutdown sends
ShutdownSignals(h) ==
  (IF h.app_pid > 0 THEN << Call("lib", "kill", h.app_pid, SIGTERM) >> ELSE << >>)
  \o (IF h.app_recoverypid > 0
      THEN << Call("lib", "kill", h.app_recoverypid, SIGKILL) >> ELSE << >>)

\* lines 1099: is the VM waited for
WaitsForVm(h) == h.recovery_proc /\ h.app_pid > 0

\* lines 1098-1109: the waitpid calls of shutdown
ShutdownWaits(h) ==
  (IF WaitsForVm(h) THEN << Call("lib", "waitpid", h.app_pid, 0) >> ELSE << >>)
  \o (IF h.app_recoverypid > 0
      THEN << Call("lib", "waitpid", h.app_recoverypid, 0) >> ELSE << >>)

\* lines 1100-1107: ret after waitpid (qemu) gave status st ("fail": -1)
ShutdownRet_IgnoresRecovery(h, st) ==
  IF h.app_pid > 0 /\ st # "exit0" THEN -1 ELSE 0

ShutdownRet(h, st) ==
  IF WaitsForVm(h) /\ st # "exit0" THEN -1 ELSE 0

\* lines 1111-1118: the handle when shutdown returns
ShutdownHandle_KeepsPids(h) ==
  [h EXCEPT !.qemu_help = NULL, !.qemu_version = NULL, !.qemu_devices = NULL]

ShutdownHandle(h) ==
  [h EXCEPT !.app_pid = 0, !.app_recoverypid = 0, !.qemu_help = NULL,
            !.qemu_version = NULL, !.qemu_devices = NULL]

\* what waitpid (qemu) reports: "fail" (-1) when the child is already gone,
\* else the status term the VM ended or ends with
VmStatus(p, h, term) ==
  IF ~WaitsForVm(h) THEN "none"
  ELSE IF ~Existence(p, h.app_pid) THEN "fail"
  ELSE term

\* shutdown_appliance as a whole: handle, process table, calls, return value
shutdown_appliance(h, p, term) ==
  LET st == VmStatus(p, h, term)
      p1 == Apply(p, ShutdownSignals(h))
      p2 == IF WaitsForVm(h) /\ st # "fail"
            THEN [p1 EXCEPT ![h.app_pid] = "gone"] ELSE p1
      p3 == IF h.app_recoverypid > 0 THEN Reap(p2, h.app_recoverypid) ELSE p2
  IN [ g |-> ShutdownHandle(h), proc |-> p3,
       calls |-> ShutdownSignals(h) \o ShutdownWaits(h),
       status |-> st, ret |-> ShutdownRet(h, st) ]

\* attach_ops.shutdown called on the handle
Shutdown ==
  /\ Lib("idle")
  /\ cnt.calls < MaxCalls
  /\ \E term \in ExitStatus :
       LET s == shutdown_appliance(g, proc, term)
       IN /\ g' = s.g
          /\ proc' = s.proc
          /\ syslog' = s.calls
          /\ log' = IF s.ret = -1 THEN {Error} ELSE {}
          /\ status' = s.status
          /\ Return("shutdown", s.ret)
  /\ wd' = WdAfterKill(wd, g.app_recoverypid)
  /\ pre' = g
  /\ cnt' = [cnt EXCEPT !.calls = @ + 1, !.accept = 0]
  /\ UNCHANGED << wfd, rfd, r, has_appliance_drive, size, fds, auth >>
  /\ UNCHANGED << child, null_vmchannel_port >>

\* guestfs_shutdown, the caller of attach_ops.shutdown on a launched handle:
\* it closes the stdio descriptors and the socket, runs shutdown_appliance
\* and puts the handle back in CONFIG
guestfs_shutdown ==
  /\ Lib("idle")
  /\ g.state = "READY"
  /\ \E term \in ExitStatus :
       LET h == [g EXCEPT !.fd = << -1, -1 >>, !.sock = -1]
           s == shutdown_appliance(h, proc, term)
       IN /\ g' = [s.g EXCEPT !.state = "CONFIG"]
          /\ proc' = s.proc
          /\ syslog' = s.calls
          /\ log' = IF s.ret = -1 THEN {Error} ELSE {}
          /\ status' = s.status
          /\ pre' = h
          /\ Return("guestfs_shutdown", s.ret)
  /\ fds' = CloseAll(fds, << g.fd[1], g.fd[2], g.sock >>)
  /\ wd' = WdAfterKill(wd, g.app_recoverypid)
  /\ cnt' = [cnt EXCEPT !.accept = 0]
  /\ UNCHANGED << wfd, rfd, r, has_appliance_drive, size, auth >>
  /\ UNCHANGED << child, null_vmchannel_port >>

\* lines 1135-1142: max_disks_appliance
MaxDisks ==
  /\ Lib("idle")
  /\ cnt.calls < MaxCalls
  /\ \E out \in ProbeOutcomes, out2 \in ProbeOutcomes :
       LET q == qemu_supports_virtio_scsi(g, out, out2)
       IN /\ g' = q.g
          /\ log' = q.log
          /\ Return("max_disks", IF q.r = 1 THEN 255 ELSE 27)
  /\ pre' = g
  /\ cnt' = [cnt EXCEPT !.calls = @ + 1, !.accept = 0]
  /\ syslog' = << >>
  /\ UNCHANGED << wfd, rfd, r, has_appliance_drive, size, fds, proc,
                  auth, wd, status >>
  /\ UNCHANGED << child, null_vmchannel_port >>

(* ------------------------- the recovery process ------------------------- *)
WdRuns(at) == wd.pc = at /\ proc[wd.pid] = "running"

\* line 528: parent_pid = getppid (); an orphan's parent is init
WdGetppid ==
  /\ WdRuns("getppid")
  /\ wd' = [wd EXCEPT !.parent_pid = IF LibAlive THEN LibPid ELSE InitPid,
                      !.pc = "checkvm"]
  /\ UNCHANGED << pc, g, wfd, rfd, r, has_appliance_drive, size, ret, lastOp,
                  fds, proc, syslog, log, auth, pre, status, cnt >>
  /\ UNCHANGED << child, null_vmchannel_port >>

\* kill (pid, 0) == 0 as the recovery process sees it: the pid exists and may
\* be signalled; init always exists, and whether it may be signalled (perm)
\* depends on the privileges of the process
CanSignal(p, pid, perm) ==
  IF pid = InitPid THEN perm ELSE Existence(p, pid)

\* lines 571-572: has qemu gone away
WdCheckVm ==
  /\ WdRuns("checkvm")
  /\ IF CanSignal(proc, wd.qemu_pid, TRUE)
     THEN /\ wd' = [wd EXCEPT !.pc = "checkparent"]
          /\ proc' = proc
     ELSE /\ wd' = WdExited(wd)
          /\ proc' = [proc EXCEPT ![wd.pid] = "zombie"]
  /\ UNCHANGED << pc, g, wfd, rfd, r, has_appliance_drive, size, ret, lastOp,
                  fds, syslog, log, auth, pre, status, cnt >>
  /\ UNCHANGED << child, null_vmchannel_port >>

\* line 573: kill (parent_pid, 0) == -1
ParentGone_Always(p, pid, perm) == TRUE
ParentGone(p, pid, perm) == ~CanSignal(p, pid, perm)

\* line 573: has the parent gone away
WdCheckParent ==
  /\ WdRuns("checkparent")
  /\ \E perm \in BOOLEAN :
       wd' = [wd EXCEPT !.pc = IF ParentGone(proc, wd.parent_pid, perm)
                                THEN "killvm" ELSE "sleep"]
  /\ UNCHANGED << pc, g, wfd, rfd, r, has_appliance_drive, size, ret, lastOp,
                  fds, proc, syslog, log, auth, pre, status, cnt >>
  /\ UNCHANGED << child, null_vmchannel_port >>

\* lines 575-576: kill qemu and exit
WdKillVm ==
  /\ WdRuns("killvm")
  /\ syslog' = Append(syslog, Call("wd", "kill", wd.qemu_pid, SIGKILL))
  /\ log' = log
  /\ proc' = [Deliver(proc, wd.qemu_pid, SIGKILL) EXCEPT ![wd.pid] = "zombie"]
  /\ wd' = WdExited(wd)
  /\ UNCHANGED << pc, g, wfd, rfd, r, has_appliance_drive, size, ret, lastOp,
                  fds, auth, pre, status, cnt >>
  /\ UNCHANGED << child, null_vmchannel_port >>

\* line 578: sleep (2), then the next iteration
WdSleep ==
  /\ WdRuns("sleep")
  /\ wd' = [wd EXCEPT !.pc = "checkvm"]
  /\ UNCHANGED << pc, g, wfd, rfd, r, has_appliance_drive, size, ret, lastOp,
                  fds, proc, syslog, log, auth, pre, status, cnt >>
  /\ UNCHANGED << child, null_vmchannel_port >>

Watchdog == WdGetppid \/ WdCheckVm \/ WdCheckParent \/ WdKillVm \/ WdSleep

(* ------------------------------ environment ----------------------------- *)
\* the VM child exits by itself (exec failed, qemu crashed, the guest halted)
VmExits ==
  /\ \E pid \in DOMAIN proc :
       /\ pid >= FirstChildPid /\ pid # wd.pid
       /\ proc[pid] = "running"
       /\ proc' = [proc EXCEPT ![pid] = "zombie"]
  /\ UNCHANGED << pc, g, wfd, rfd, r, has_appliance_drive, size, ret, lastOp,
                  fds, wd, syslog, log, auth, pre, status, cnt >>
  /\ UNCHANGED << child, null_vmchannel_port >>

\* a child that has exited is reaped by someone else: by init once the
\* library process is gone, by the host program's SIGCHLD handling before
Reaped ==
  /\ \E pid \in DOMAIN proc :
       /\ pid >= FirstChildPid
       /\ proc[pid] = "zombie"
       /\ proc' = [proc EXCEPT ![pid] = "gone"]
  /\ UNCHANGED << pc, g, wfd, rfd, r, has_appliance_drive, size, ret, lastOp,
                  fds, wd, syslog, log, auth, pre, status, cnt >>
  /\ UNCHANGED << child, null_vmchannel_port >>

\* the library process dies (a segfault in the host program) while its
\* recovery process runs; the handle, the locals and the descriptors of the
\* dead process are no more
ParentDies ==
  /\ LibAlive
  /\ wd.pc \notin {"none", "done"}
  /\ proc' = [proc EXCEPT ![LibPid] = "gone"]
  /\ pc' = "dead"
  /\ g' = InitHandle(0, FALSE, FALSE)
  /\ wfd' = << -1, -1 >> /\ rfd' = << -1, -1 >> /\ r' = 0
  /\ has_appliance_drive' = FALSE /\ size' = "none" /\ ret' = 0
  /\ lastOp' = << >>
  /\ fds' = [open |-> {}, nonblock |-> {}, launch |-> {}, dbl |-> {}]
  /\ syslog' = << >> /\ log' = {} /\ auth' = NoAuth
  /\ pre' = g' /\ status' = "none"
  /\ cnt' = [launch |-> MaxLaunches, accept |-> 0, calls |-> 0]
  /\ wd' = wd
  /\ child' = NoChild /\ null_vmchannel_port' = 0

Next ==
  \/ LaunchEnter \/ BuildAppliance \/ Probe \/ Socket \/ Bind \/ Listen
  \/ Getsockname \/ FcntlSock \/ Pipe \/ ForkVm \/ ForkRecovery \/ Plumb
  \/ Accept \/ CloseListen \/ Nonblock \/ Recv \/ Final
  \/ Cleanup1 \/ Cleanup0
  \/ Shutdown \/ guestfs_shutdown \/ MaxDisks
  \/ WdGetppid \/ WdCheckVm \/ WdCheckParent \/ WdKillVm \/ WdSleep
  \/ VmExits \/ Reaped \/ ParentDies

Spec == Init /\ [][Next]_vars

\* init reaps the children of a library process that has died
InitReaps == ~LibAlive /\ Reaped

\* the recovery process is scheduled fairly, and init does its work
FairSpec == Spec /\ WF_vars(Watchdog) /\ WF_vars(InitReaps)

(* ------------------- the functions of the file, called alone ------------ *)
\* The static functions that the child and max_disks call on a handle, called
\* one after the other on a handle that may hold any drives and have any qemu
\* binary: pc stays "fn", g is the handle, pre the handle before the last
\* call, ret its int result, log what it emitted, lastOp the call, its
\* argument and the string it returned, if it returns one.
Versions == { <<"1",".","1">>, <<"2",".","1">> }
DeviceLists == { << >>, VirtioScsiPci }
Hypervisors == { Hypervisor(v, d) : v \in Versions, d \in DeviceLists }
Options == { <<"-">>, <<"-","m">>, <<"m","-">>, <<"x">> }
DeviceNames == { VirtioScsiPci, <<"i","d","e","-","h","d">> }

\* drive->iface: NULL, "ide", "virtio", or something else
Ifaces == { NULL, Some(Ide), Some(Virtio), Some(<<"s","c","s","i">>) }
IfaceDrives == { [PlainDrive EXCEPT !.iface = i] : i \in Ifaces }
\* the lists of 1 to MaxDrives such drives
DriveLists == UNION { [1..n -> IfaceDrives] : n \in 1..MaxDrives }

\* drives for qemu_drive_param: paths, formats and labels with and without
\* commas
Paths == { <<"/","a">>, <<"/","a",",","b",",","c",".","i","m","g">> }
Formats == { NULL, Some(<<"r","a","w",",","s","n","a","p","s","h","o","t","=","o","n">>) }
Labels == { NULL, Some(<<"x",",","i","f","=","i","d","e">>) }
ParamDrives ==
  { Drive(p, i, f, l, ro, cn) :
      p \in Paths, i \in { NULL, Some(Ide) }, f \in Formats, l \in Labels,
      ro \in BOOLEAN, cn \in BOOLEAN }

\* a handle with the drives ds and the qemu binary q
FnHandle(ds, q) ==
  [InitHandle(0, FALSE, FALSE) EXCEPT !.qemu = q, !.drives = ds,
                                      !.nr_drives = Len(ds)]
FnHandles ==
  { FnHandle(<< >>, q) : q \in Hypervisors }
  \cup { FnHandle(ds, Qemu21) : ds \in DriveLists }
  \cup { FnHandle(<< d >>, Qemu21) : d \in ParamDrives \ IfaceDrives }

\* no launch has been made on the handle
NotLaunched ==
  /\ wfd = << -1, -1 >> /\ rfd = << -1, -1 >>
  /\ r = 0
  /\ has_appliance_drive = FALSE
  /\ size = "none"
  /\ ret = 0
  /\ lastOp = << >>
  /\ fds = [open |-> {0, 1, 2}, nonblock |-> {}, launch |-> {}, dbl |-> {}]
  /\ proc = (LibPid :> "running")
  /\ wd = NoWd
  /\ syslog = << >>
  /\ log = {}
  /\ auth = NoAuth
  /\ pre = g
  /\ status = "none"
  /\ cnt = [launch |-> 0, accept |-> 0, calls |-> 0]
  /\ child = NoChild /\ null_vmchannel_port = 0

InitFn == pc = "fn" /\ g \in FnHandles /\ NotLaunched

\* a function was called with arg on the handle and returned q, or the
\* string str
FnCall(op, arg, q, str) ==
  /\ pc = "fn"
  /\ pre' = g
  /\ g' = q.g
  /\ ret' = q.r
  /\ log' = q.log
  /\ lastOp' = << [op |-> op, arg |-> arg, ret |-> q.r, str |-> str] >>
  /\ UNCHANGED << pc, wfd, rfd, r, has_appliance_drive, size, fds, proc, wd,
                  syslog, auth, status, cnt, child,
                  null_vmchannel_port >>

SupportsOption ==
  \E option \in Options, out \in ProbeOutcomes :
    FnCall("qemu_supports", option, qemu_supports(g, Some(option), out), << >>)

SupportsDevice ==
  \E device_name \in DeviceNames, out \in ProbeOutcomes :
    FnCall("qemu_supports_device", device_name,
           qemu_supports_device(g, device_name, out), << >>)

ChooseDiskBus ==
  \E out \in ProbeOutcomes, out2 \in ProbeOutcomes :
    FnCall("qemu_supports_virtio_scsi", << >>,
           qemu_supports_virtio_scsi(g, out, out2), << >>)

\* shutdown_appliance on a handle without children: lines 1111-1118
FnShutdown ==
  FnCall("shutdown", << >>,
         [g |-> ShutdownHandle(g), r |-> 0, log |-> {}], << >>)

MakeApplianceDev ==
  \E virtio_scsi \in {0, 1} :
    FnCall("make_appliance_dev", virtio_scsi, Cached(g),
           make_appliance_dev(g, virtio_scsi))

QemuDriveParam ==
  \E i \in 1..Len(g.drives), out \in ProbeOutcomes :
    \E q \in { qemu_drive_param(g, g.drives[i], out) } :
      FnCall("qemu_drive_param", g.drives[i], [q EXCEPT !.r = 0], q.r)

NextFn ==
  \/ SupportsOption \/ SupportsDevice \/ ChooseDiskBus \/ FnShutdown
  \/ MakeApplianceDev \/ QemuDriveParam

FnSpec == InitFn /\ [][NextFn]_vars

FnReturned(op) == lastOp # << >> /\ lastOp[1].op = op

(* --------------------- the child between fork and exec ------------------ *)
\* The copy of the handle that a child gets: the parent has run the probe
\* (line 211), so the three texts are cached; drives with and without an
\* iface, parameters registered with guestfs_config.  pc is "child" and
\* becomes "exec" when the child reaches execv.
ChildHelps == { <<"-","m"," ","-","e","n","a","b","l","e","-","k","v","m">>, <<"-","m","a","c","h","i","n","e"," ","c","a","c","h","e","="," ","u","n","s","a","f","e">> }
ChildDrives ==
  { PlainDrive, Drive(<<"/","b">>, Some(Ide), NULL, NULL, FALSE, FALSE) }
ChildDriveLists == UNION { [1..n -> ChildDrives] : n \in 0..MaxDrives }
Param(qemu_param, qemu_value) ==
  [qemu_param |-> qemu_param, qemu_value |-> qemu_value]
ExtraParams ==
  { << >>,
    << Param(<<"-","a">>, NULL) >>,
    << Param(<<"-","s","e","t">>, Some(<<"x">>)), Param(<<"-","a">>, NULL) >> }
ChildHandles ==
  { test_qemu([FnHandle(ds, Qemu21) EXCEPT !.qemu_params = e, !.smp = n],
              [run |-> "ok", help |-> Some(t)]).g :
      ds \in ChildDriveLists, e \in ExtraParams, n \in 1..2, t \in ChildHelps }

\* QEMU_OPTIONS as configure can set it: empty (the default), words, a quote
ConfiguredOptions == { << >>, <<"a">>, <<"a"," ","a">>, <<"'">> }

InitCmd ==
  /\ \/ pc = "split" /\ g = FnHandle(<< >>, Qemu21)
     \/ pc = "child" /\ g \in ChildHandles
  /\ NotLaunched

\* The code that builds the command line, run in a child on its copy of the
\* handle: pc is "split" for the splitter called alone and "child" for a
\* child that was just forked; it becomes "exec" when the child reaches
\* execv, "exited" when it has called _exit, "added" when only the drives
\* were added.  lastOp holds the call, its argument and the vector (argv).
ShellChars == { "a", " ", "'", "\"" }
OptionStrings == UNION { [1..n -> ShellChars] : n \in 0..MaxOptLen }

\* a function of the child was called with arg and left q
CmdCall(op, arg, q, next) ==
  /\ pc' = IF q.exited THEN "exited" ELSE next
  /\ pre' = g
  /\ ret' = IF q.exited THEN -1 ELSE 0
  /\ lastOp' = << [op |-> op, arg |-> arg, ret |-> IF q.exited THEN -1 ELSE 0,
                   str |-> << >>, argv |-> q.cmdline, null |-> q.null] >>
  /\ UNCHANGED << g, wfd, rfd, r, has_appliance_drive, size, fds, proc, wd,
                  syslog, log, auth, status, cnt, child,
                  null_vmchannel_port >>

PushShell ==
  /\ pc = "split"
  /\ \E options \in OptionStrings :
       \E q \in { add_cmdline_shell_unquoted(alloc_cmdline(g), options, 1) } :
         CmdCall("add_cmdline_shell_unquoted", options, q, "split")

\* lines 368-416 alone, for both values of the local virtio_scsi
AddDrives ==
  /\ pc = "child"
  /\ \E virtio_scsi \in {0, 1}, has_drive \in BOOLEAN, out \in ProbeOutcomes :
       \E c \in { drive_args(<< >>, g, virtio_scsi, has_drive, out) } :
         CmdCall("drives", [virtio_scsi |-> virtio_scsi, has_drive |-> has_drive],
                 [cmdline |-> c, exited |-> FALSE, null |-> FALSE], "added")

\* lines 274-510: the child from fork to execv
ChildExec ==
  /\ pc = "child"
  /\ \E has_drive \in BOOLEAN, kvm \in BOOLEAN, out \in ProbeOutcomes,
        QEMU_OPTIONS \in ConfiguredOptions :
       \E q \in { child_cmdline(g, has_drive, kvm, ListenPort, QEMU_OPTIONS, out) } :
         CmdCall("child", [has_drive |-> has_drive, kvm |-> kvm,
                           QEMU_OPTIONS |-> QEMU_OPTIONS], q, "exec")

NextCmd == PushShell \/ AddDrives \/ ChildExec

CmdSpec == InitCmd /\ [][NextCmd]_vars


(* ------------------------ the daemon: daemon/uuids.c -------------------- *)
\* Strings are only compared here (STREQ), so they are TLA+ strings.  A
\* function returns r, the calls it made to the setters outside this file
\* (do_set_e2uuid, xfs_set_uuid, the swaplabel command) and the
\* reply_with_error calls it made itself.  out is what the setter returns.
SetterCall(fn, device, uuid) ==
  [who |-> "daemon", op |-> fn, device |-> device, uuid |-> uuid]

Done(rv, calls, errors) == [r |-> rv, calls |-> calls, errors |-> errors]

\* lines 32-45 without the test of the magic values
e2uuid_Unchecked(device, uuid, out) ==
  Done(out, << SetterCall("do_set_e2uuid", device, uuid) >>, 0)

\* lines 32-45
e2uuid(device, uuid, out) ==
  IF uuid = "clear" \/ uuid = "random" \/ uuid = "time"
  THEN Done(-1, << >>, 1)
  ELSE Done(out, << SetterCall("do_set_e2uuid", device, uuid) >>, 0)

\* lines 47-57
xfsuuid(device, uuid, out) ==
  IF uuid = "nil" \/ uuid = "generate"
  THEN Done(-1, << >>, 1)
  ELSE Done(out, << SetterCall("xfs_set_uuid", device, uuid) >>, 0)

\* lines 59-72: command (NULL, &err, str_swaplabel, "-U", uuid, device, NULL)
swapuuid(device, uuid, out) ==
  IF out = -1
  THEN Done(-1, << SetterCall("swaplabel", device, uuid) >>, 1)
  ELSE Done(0, << SetterCall("swaplabel", device, uuid) >>, 0)

\* lines 74-105; tag is what get_blkid_tag (device, "TYPE") returned: NULL or
\* the type, with what fstype_is_extfs says of it
do_set_uuid(device, uuid, tag, out) ==
  IF IsNull(tag) THEN Done(-1, << >>, 0)
  ELSE LET vfs_type == tag[1]
       IN IF vfs_type.extfs THEN e2uuid(device, uuid, out)
          ELSE IF vfs_type.name = "xfs" THEN xfsuuid(device, uuid, out)
          ELSE IF vfs_type.name = "swap" THEN swapuuid(device, uuid, out)
          ELSE IF vfs_type.name = "btrfs" THEN Done(-1, << >>, 1)
          ELSE Done(-1, << >>, 1)

\* the requests the daemon gets: a device, the new UUID, and the filesystem
\* blkid finds on the device (or fails to find)
Devices == { "/dev/sda1", "/dev/sdb1" }
Uuids == { "clear", "random", "time", "nil", "generate", "",
           "2f5f3b1a-7b6e-4c11-9d2e-0a1b2c3d4e5f" }
FsType(name, extfs) == [name |-> name, extfs |-> extfs]
BlkidTags ==
  { NULL }
  \cup { Some(FsType(n, TRUE)) : n \in { "ext2", "ext3", "ext4" } }
  \cup { Some(FsType(n, FALSE)) : n \in { "xfs", "swap", "btrfs", "ntfs", "vfat" } }

InitDaemon ==
  /\ pc = "daemon" /\ g = InitHandle(0, FALSE, FALSE)
  /\ NotLaunched

\* the daemon serves one set_uuid request
DoSetUuid ==
  /\ pc = "daemon"
  /\ \E device \in Devices, uuid \in Uuids, tag \in BlkidTags, out \in {0, -1} :
       \E q \in { do_set_uuid(device, uuid, tag, out) } :
         /\ ret' = q.r
         /\ syslog' = q.calls
         /\ log' = IF q.errors > 0 THEN {Error} ELSE {}
         /\ lastOp' = << [op |-> "do_set_uuid",
                          arg |-> [device |-> device, uuid |-> uuid,
                                   tag |-> tag, out |-> out],
                          ret |-> q.r, str |-> << >>, argv |-> << >>,
                          null |-> FALSE] >>
  /\ UNCHANGED << pc, g, wfd, rfd, r, has_appliance_drive, size, fds, proc, wd,
                  auth, pre, status, cnt, child, null_vmchannel_port >>

NextDaemon == DoSetUuid

DaemonSpec == InitDaemon /\ [][NextDaemon]_vars

(* ------------------------------- properties ----------------------------- *)
\* the call op has returned and nothing was called since
Returned(op) == pc = "idle" /\ lastOp # << >> /\ lastOp[1].op = op
LaunchSucceeded == Returned("launch") /\ ret = 0
LaunchFailed == Returned("launch") /\ ret = -1
ShutdownReturned == Returned("shutdown") \/ Returned("guestfs_shutdown")

\* the children the current launch forked, if it forked them
ThisVm == VmPid(cnt.launch)
ThisWd == WdPid(cnt.launch)

Logged(c) == \E i \in 1..Len(syslog) : syslog[i] = c

\* the library sent pid SIGKILL, waited for it afterwards, and pid is gone
KilledAndReaped(pid) ==
  /\ \E i, j \in 1..Len(syslog) :
       /\ i < j
       /\ syslog[i] = Call("lib", "kill", pid, SIGKILL)
       /\ syslog[j] = Call("lib", "waitpid", pid, 0)
  /\ proc[pid] = "gone"

CacheCleared(h) ==
  /\ IsNull(h.qemu_help) /\ IsNull(h.qemu_version) /\ IsNull(h.qemu_devices)

\* C1: when a launch has failed, every descriptor the launch opened (the
\* listening socket, accepted sockets, the pipe ends) is closed, and the launch
\* closed no descriptor that was not open (none was closed twice).
C1_DescriptorsClosedOnFailure ==
  LaunchFailed => (fds.launch \cap fds.open = {} /\ fds.dbl = {})

\* C2: when a launch has failed after the VM child was forked, the VM and the
\* recovery process (if it was forked) were sent SIGKILL by the library and
\* then waited for and are gone, app.pid = app.recoverypid = 0, both stdio
\* descriptors of the handle are -1, launch_t is zero, the state is CONFIG and
\* the call returned -1.
C2_TeardownAfterFork ==
  (LaunchFailed /\ ThisVm \in DOMAIN proc) =>
    /\ KilledAndReaped(ThisVm)
    /\ ThisWd \in DOMAIN proc => KilledAndReaped(ThisWd)
    /\ g.app_pid = 0 /\ g.app_recoverypid = 0
    /\ g.fd = << -1, -1 >>
    /\ g.launch_t = 0
    /\ g.state = "CONFIG"
    /\ ret = -1

C2_Witness ==
  LaunchFailed /\ ThisVm \in DOMAIN proc /\ ThisWd \in DOMAIN proc

\* C3: a launch that has succeeded installed as the data socket the accepted
\* connection for which check_peer_euid reported the uid geteuid (), and only
\* such a connection is ever installed; and each iteration of the accept loop
\* that gets a connection with another reported uid closes it, leaves the
\* listening socket open and installed, and is back at the accept call.
C3_Installed ==
  /\ LaunchSucceeded => (auth.installed /\ g.sock = auth.fd)
  /\ auth.installed => (auth.r = 0 /\ auth.uid = geteuid)

C3_Rejected ==
  (pc = "accept" /\ cnt'.accept # cnt.accept
     /\ auth'.r = 0 /\ auth'.uid # geteuid) =>
    /\ pc' = "accept"
    /\ r' = -1
    /\ auth'.fd \notin fds'.open
    /\ ~auth'.installed
    /\ g'.sock = g.sock /\ g'.sock # auth'.fd
    /\ g'.sock \in fds'.open

C3_OnlyOwnUidInstalled == [] C3_Installed /\ [][C3_Rejected]_vars

C3_Witness ==
  LaunchSucceeded /\ cnt.accept >= 2 /\ auth.installed

\* C4: when the process that connected runs under another uid than the
\* library, and the TCP table holds the rows of both endpoints of the
\* connection, each with the uid of the process that owns the endpoint,
\* check_peer_euid succeeds and reports the uid of the connecting process.
C4_ReportsConnectingUid ==
  (auth.r # NoAuth.r /\ auth.expect \notin {-1, geteuid}) =>
    (auth.r = 0 /\ auth.uid = auth.expect)

\* C5: when a launch has succeeded, the state is READY, the handle's socket is
\* the accepted connection, open and non-blocking, the only descriptors of the
\* launch still open are that socket and the handle's two pipe ends (so the
\* listening socket is closed), app.pid > 0, and the size word received from
\* the daemon was the launch flag.
C5_SuccessMeansReady ==
  LaunchSucceeded =>
    /\ g.state = "READY"
    /\ g.sock = auth.fd /\ g.sock \in fds.open /\ g.sock \in fds.nonblock
    /\ fds.launch \cap fds.open
         = {g.sock} \cup (IF g.direct THEN {} ELSE {g.fd[1], g.fd[2]})
    /\ g.app_pid > 0
    /\ size = "LAUNCH_FLAG"

C5_Witness ==
  LaunchSucceeded /\ ~g.direct /\ g.fd[1] \in fds.open /\ g.state = "READY"

\* C6: a launch returns 0 with state READY or -1 with state CONFIG, never
\* with state LAUNCHING; and whenever the state is LAUNCHING the launch is
\* still running and has forked the VM child.
C6_LaunchStates ==
  /\ Returned("launch") =>
       \/ ret = 0 /\ g.state = "READY"
       \/ ret = -1 /\ g.state = "CONFIG"
  /\ g.state = "LAUNCHING" =>
       /\ pc \notin {"idle", "dead"}
       /\ ThisVm \in DOMAIN proc

C6_Witness ==
  LaunchFailed /\ auth.installed /\ g.state = "CONFIG"

\* C7: when shutdown has returned, the capability cache is cleared: the three
\* texts are unset, the version numbers are 0 and virtio_scsi is 0 (untested);
\* and app.pid = app.recoverypid = 0.
C7_ShutdownClearsCache ==
  ShutdownReturned =>
    /\ CacheCleared(g)
    /\ g.qemu_version_major = 0 /\ g.qemu_version_minor = 0
    /\ g.virtio_scsi = 0
    /\ g.app_pid = 0 /\ g.app_recoverypid = 0

\* C8: a shutdown called right after a shutdown makes no kill and no waitpid
\* call, returns 0 and leaves the handle as it found it, with both pids 0 and
\* the cached texts unset, whatever the first call returned.
C8_ShutdownIdempotent ==
  (pc = "idle" /\ Len(lastOp) = 2 /\ lastOp[1].op = "shutdown"
     /\ lastOp[2].op \in {"shutdown", "guestfs_shutdown"}) =>
    /\ syslog = << >>
    /\ status = "none"
    /\ ret = 0
    /\ g = pre
    /\ g.app_pid = 0 /\ g.app_recoverypid = 0
    /\ CacheCleared(g)

C8_Witness ==
  /\ pc = "idle"
  /\ lastOp = << [op |-> "shutdown", ret |-> 0], [op |-> "shutdown", ret |-> -1] >>

\* C9: when shutdown has returned, all its kill calls came before its waitpid
\* calls, the VM (if app.pid > 0) was sent SIGTERM, the recovery process (if
\* app.recoverypid > 0) was sent SIGKILL, was waited for and is gone, the VM
\* was waited for exactly when recovery_proc is set and app.pid > 0, and the
\* return value is -1 exactly when that wait was made and it failed or gave a
\* status other than "exited with code 0".
C9_ShutdownSignalsAndResult ==
  ShutdownReturned =>
    /\ \A i, j \in 1..Len(syslog) :
         (syslog[i].op = "kill" /\ syslog[j].op = "waitpid") => i < j
    /\ pre.app_pid > 0 => Logged(Call("lib", "kill", pre.app_pid, SIGTERM))
    /\ pre.app_recoverypid > 0 =>
         /\ Logged(Call("lib", "kill", pre.app_recoverypid, SIGKILL))
         /\ Logged(Call("lib", "waitpid", pre.app_recoverypid, 0))
         /\ proc[pre.app_recoverypid] = "gone"
    /\ (pre.recovery_proc /\ pre.app_pid > 0)
         <=> Logged(Call("lib", "waitpid", pre.app_pid, 0))
    /\ (pre.recovery_proc /\ pre.app_pid > 0) <=> status # "none"
    /\ ret = IF pre.recovery_proc /\ pre.app_pid > 0 /\ status # "exit0"
             THEN -1 ELSE 0

C9_Witness ==
  /\ Returned("shutdown") /\ ret = -1
  /\ pre.app_recoverypid > 0 /\ status = "signaled"

\* C10: once the library process is dead while its recovery process runs and
\* the VM is alive, eventually the recovery process has exited and the VM
\* runs no more; and once the VM is gone while the recovery process runs,
\* eventually the recovery process has exited.
C10_WatchdogActs ==
  /\ (~LibAlive /\ wd.pc \notin {"none", "done"} /\ proc[wd.qemu_pid] = "running")
       ~> (wd.pc = "done" /\ proc[wd.qemu_pid] # "running")
  /\ (wd.pc \notin {"none", "done"} /\ ~Existence(proc, wd.qemu_pid))
       ~> (wd.pc = "done")


(* C11: the recovery process signals nothing but the VM of its launch, with
   SIGKILL, and only in an iteration of its loop in which it first saw the
   VM present (kill (qemu_pid, 0) succeeded) and then saw the parent gone;
   while the library process is alive it never gets to the kill. *)
WdSignals ==
  /\ Len(syslog') = Len(syslog) + 1
  /\ syslog'[Len(syslog')].who = "wd"
C11_Step ==
  /\ WdSignals =>
       /\ syslog'[Len(syslog')] = Call("wd", "kill", wd.qemu_pid, SIGKILL)
       /\ wd.pc = "killvm"
       /\ \E n \in 1..MaxLaunches : wd.qemu_pid = VmPid(n) /\ wd.pid = WdPid(n)
       /\ ~LibAlive
  /\ (wd'.pc = "killvm" /\ wd.pc # "killvm") =>
       /\ wd.pc = "checkparent"
       /\ ~LibAlive
  /\ (wd'.pc = "checkparent" /\ wd.pc # "checkparent") =>
       /\ wd.pc = "checkvm"
       /\ Existence(proc, wd.qemu_pid)
C11_WatchdogKillsOnlyOrphanedVm == [][C11_Step]_vars
C11_Witness ==
  /\ wd.pc = "done"
  /\ Logged(Call("wd", "kill", wd.qemu_pid, SIGKILL))
  /\ ~LibAlive

(* C12: with the recovery process enabled, a launch that succeeded either
   has the pid of a recovery process in the handle or has written a warning
   (about the fork that failed). *)
Warnings == { e \in log : e.tag = "warning" }
C12_RecoveryPidOrWarning ==
  (LaunchSucceeded /\ g.recovery_proc) =>
    (g.app_recoverypid > 0 \/ Warnings # {})

(* C13: a launch of a handle without drives fails with one error message
   before anything else happened: no progress event, the qemu binary not
   run, no descriptor opened, no child forked, the handle as it was. *)
C13_NoDrivesNoSideEffect ==
  (LaunchFailed /\ pre.nr_drives = 0) =>
    /\ log = {Error}
    /\ g = pre
    /\ g.state = "CONFIG" /\ g.sock = -1 /\ g.fd = << -1, -1 >>
    /\ g.app_pid = 0 /\ g.app_recoverypid = 0
    /\ fds.launch = {}
    /\ ThisVm \notin DOMAIN proc /\ ThisWd \notin DOMAIN proc
    /\ syslog = << >>
C13_Witness == LaunchFailed /\ pre.nr_drives = 0 /\ log = {Error}

(* C14: the three capability texts are filled in together: whenever the
   library is between two steps either none of help, version and device
   text is set (nothing probed yet, the last probe failed, or a shutdown
   freed them), so that the next query probes again, or all three are. *)
CacheFilled(h) ==
  ~IsNull(h.qemu_help) /\ ~IsNull(h.qemu_version) /\ ~IsNull(h.qemu_devices)
C14_CachesAtomic == LibAlive => (CacheCleared(g) \/ CacheFilled(g))

(* C15: when the three texts are cached (a probe has succeeded and no
   shutdown came since), a call of qemu_supports or qemu_supports_device
   leaves the handle, the texts and the parsed version with it, as it was,
   does not run the qemu binary, and returns whether its argument occurs in
   the cached help text, resp. device text. *)
C15_QueriesKeepCache ==
  /\ (FnReturned("qemu_supports") /\ CacheFilled(pre)) =>
       /\ g = pre
       /\ RunQemu \notin log
       /\ ret = IF strstr(pre.qemu_help[1], lastOp[1].arg) THEN 1 ELSE 0
  /\ (FnReturned("qemu_supports_device") /\ CacheFilled(pre)) =>
       /\ g = pre
       /\ RunQemu \notin log
       /\ ret = IF strstr(pre.qemu_devices[1], lastOp[1].arg) THEN 1 ELSE 0
C15_Witness ==
  /\ FnReturned("qemu_supports") /\ CacheFilled(pre) /\ ret = 1

(* C16: the disk bus decided by a call of qemu_supports_virtio_scsi whose
   probe succeeded is virtio-scsi (result 1, state 1 = supported) exactly
   when the version that the qemu binary reports is not a broken one
   (major 1, minor below 2) and its device listing has virtio-scsi-pci. *)
ReportedVersion(h) ==
  parse_qemu_version([h EXCEPT !.qemu_version = Some(h.qemu.version)])
C16_DiskBusChoice ==
  (/\ FnReturned("qemu_supports_virtio_scsi")
   /\ pre.virtio_scsi = 0
   /\ CacheFilled(g)) =>
     /\ ret = 1 <=> (/\ ~old_or_broken_virtio_scsi(ReportedVersion(g))
                     /\ strstr(g.qemu.devices, VirtioScsiPci))
     /\ g.virtio_scsi = IF ret = 1 THEN 1 ELSE 2

(* C17: the disk bus is decided and recorded in the handle of the library
   process before the VM child is forked: once the child is forked the
   handle of the parent holds a decision (not 0 = untested), the one the
   child used. *)
C17_DecidedBeforeFork ==
  (LibAlive /\ child.forked) =>
    /\ g.virtio_scsi # 0
    /\ g.virtio_scsi = child.g_virtio_scsi

(* C18: the appliance device is /dev/sd<suffix> under virtio-scsi and
   /dev/vd<suffix> under virtio-blk, the suffix being the letter of the
   number of user drives whose iface is unset or "ide" (virtio-scsi), resp.
   unset or not "virtio" (virtio-blk); drives ide, unset, virtio under
   virtio-scsi give /dev/sdc. *)
IfacesOf(h) == [i \in 1..Len(h.drives) |-> h.drives[i].iface]
CountedScsi(h) ==
  Cardinality({ i \in 1..Len(h.drives) :
                  h.drives[i].iface = NULL \/ h.drives[i].iface = Some(Ide) })
CountedBlk(h) ==
  Cardinality({ i \in 1..Len(h.drives) :
                  h.drives[i].iface = NULL \/ h.drives[i].iface # Some(Virtio) })
C18_ApplianceDevice ==
  FnReturned("make_appliance_dev") =>
    /\ lastOp[1].arg = 1 =>
         lastOp[1].str = <<"/","d","e","v","/","s","d">> \o << Letters[CountedScsi(g) + 1] >>
    /\ lastOp[1].arg = 0 =>
         lastOp[1].str = <<"/","d","e","v","/","v","d">> \o << Letters[CountedBlk(g) + 1] >>
    /\ (lastOp[1].arg = 1 /\ IfacesOf(g) = << Some(Ide), NULL, Some(Virtio) >>) =>
         lastOp[1].str = <<"/","d","e","v","/","s","d","c">>
C18_Witness ==
  /\ FnReturned("make_appliance_dev")
  /\ lastOp[1].arg = 1
  /\ IfacesOf(g) = << Some(Ide), NULL, Some(Virtio) >>
  /\ lastOp[1].str = <<"/","d","e","v","/","s","d","c">>

(* C19: after a launch that succeeded with one user drive whose iface is
   unset, virtio-blk chosen by the child and an appliance with a root image,
   the root device that the child handed to the builder of the kernel
   command line is /dev/vda. *)
C19_RootDeviceVda ==
  (/\ LaunchSucceeded
   /\ child.forked /\ child.virtio_scsi = 0
   /\ child.appliance_dev # NULL
   /\ IfacesOf(pre) = << NULL >>) =>
     child.appliance_dev = Some(<<"/","d","e","v","/","v","d","a">>)

(* C20: the parameter string of a drive, read as qemu reads it (fields
   separated by single commas, a doubled comma standing for a comma inside a
   value), has exactly one field if=..., exactly one field file=... whose
   value is the path of the drive, and has the field snapshot=on exactly
   when the drive is readonly. *)
RECURSIVE Fields(_, _)
Fields(t, cur) ==
  IF t = << >> THEN << cur >>
  ELSE IF Head(t) = ","
       THEN IF Len(t) >= 2 /\ t[2] = ","
            THEN Fields(Tail(Tail(t)), Append(cur, ","))
            ELSE << cur >> \o Fields(Tail(t), << >>)
       ELSE Fields(Tail(t), Append(cur, Head(t)))
HasKey(f, key) == Len(f) >= Len(key) /\ SubSeq(f, 1, Len(key)) = key
WithKey(fs, key) == { i \in 1..Len(fs) : HasKey(fs[i], key) }
C20_DriveParamFields ==
  FnReturned("qemu_drive_param") =>
    LET drv == lastOp[1].arg
        fs == Fields(lastOp[1].str, << >>)
    IN /\ Cardinality(WithKey(fs, <<"i","f","=">>)) = 1
       /\ Cardinality(WithKey(fs, <<"f","i","l","e","=">>)) = 1
       /\ fs[1] = <<"f","i","l","e","=">> \o drv.path
       /\ (\E i \in 1..Len(fs) : fs[i] = <<"s","n","a","p","s","h","o","t","=","o","n">>) <=> drv.readonly

(* C21: when the options string begins with a quote character and the same
   character occurs again later, followed by a space or by the end of the
   string, the splitter does not exit and the first token it appends is the
   text between the two quote characters. *)
Quotes == { "'", "\"" }
\* index of the quote that closes the one at the start of s, 0 if none
ClosingQuote(s) == IF Len(s) >= 1 THEN strchr(s, 2, s[1]) ELSE 0
OpensQuoted(s) == Len(s) >= 1 /\ s[1] \in Quotes
Splitted == FnReturned("add_cmdline_shell_unquoted")
C21_QuotedToken ==
  (/\ Splitted
   /\ OpensQuoted(lastOp[1].arg)
   /\ ClosingQuote(lastOp[1].arg) # 0
   /\ \/ ClosingQuote(lastOp[1].arg) = Len(lastOp[1].arg)
      \/ lastOp[1].arg[ClosingQuote(lastOp[1].arg) + 1] = " ") =>
     /\ ret = 0
     /\ Len(lastOp[1].argv) >= 2
     /\ lastOp[1].argv[2] =
          SubSeq(lastOp[1].arg, 2, ClosingQuote(lastOp[1].arg) - 1)

(* C22: when the options string begins with a quote character that does not
   occur again later, or whose next occurrence is followed by a character
   other than a space, the child exits with a failure status before exec. *)
C22_MalformedQuoteExits ==
  (/\ Splitted
   /\ OpensQuoted(lastOp[1].arg)
   /\ \/ ClosingQuote(lastOp[1].arg) = 0
      \/ /\ ClosingQuote(lastOp[1].arg) < Len(lastOp[1].arg)
         /\ lastOp[1].arg[ClosingQuote(lastOp[1].arg) + 1] # " ") =>
     pc = "exited" /\ ret = -1


(* C23: when the child reaches execv, element 0 of the vector is the path of
   the qemu binary, the vector ends with the NULL pointer, its last elements
   before the NULL are the parameters registered on the handle in the order
   of registration, each flag followed by its value if it has one, and
   everything the launcher generated and the words of QEMU_OPTIONS come
   before them. *)
RECURSIVE FlatParams(_)
FlatParams(qp) ==
  IF qp = << >> THEN << >>
  ELSE FlatParams(SubSeq(qp, 1, Len(qp) - 1))
       \o (IF qp[Len(qp)].qemu_value = NULL THEN << qp[Len(qp)].qemu_param >>
           ELSE << qp[Len(qp)].qemu_param, qp[Len(qp)].qemu_value[1] >>)
ExecReached == FnReturned("child") /\ pc = "exec"
AnyOutcome == CHOOSE out \in ProbeOutcomes : TRUE
\* what the launcher itself generates for the call in lastOp
Generated ==
  LET bus == qemu_supports_virtio_scsi(g, AnyOutcome, AnyOutcome)
  IN launcher_args(bus.g, bus.r, lastOp[1].arg.has_drive, lastOp[1].arg.kvm,
                   ListenPort, AnyOutcome)
C23_ExtraParamsLast ==
  ExecReached =>
    LET argv == lastOp[1].argv
        extra == FlatParams(g.qemu_params)
    IN /\ argv[1] = g.qemu.path
       /\ lastOp[1].null
       /\ Len(argv) > Len(extra)
       /\ SubSeq(argv, Len(argv) - Len(extra) + 1, Len(argv)) = extra
       /\ SubSeq(argv, 1, Len(argv) - Len(extra)) =
            add_cmdline_shell_unquoted(Generated, lastOp[1].arg.QEMU_OPTIONS, 1).cmdline
C23_Witness ==
  /\ ExecReached
  /\ Len(g.qemu_params) = 2
  /\ lastOp[1].arg.QEMU_OPTIONS = <<"a"," ","a">>
  /\ SubSeq(lastOp[1].argv, Len(lastOp[1].argv) - 4, Len(lastOp[1].argv)) =
       << <<"a">>, <<"a">>, <<"-","s","e","t">>, <<"x">>, <<"-","a">> >>


(* C25: in the arguments that the child adds for the drives, each drive of
   the handle has one -drive argument, in the order of the drives; with
   virtio-scsi, "-device virtio-scsi-pci,id=scsi" occurs exactly once and
   before every -drive, and "-device scsi-hd,drive=hd<index>" follows the
   -drive of a drive exactly when the drive has no iface; with virtio-blk no
   argument names virtio-scsi-pci or scsi-hd. *)
DrivesAdded == FnReturned("drives")
DriveOpts(argv) == { i \in 1..Len(argv) : argv[i] = <<"-","d","r","i","v","e">> }
DeviceArgs(argv, val) ==
  { i \in 1..(Len(argv) - 1) : argv[i] = <<"-","d","e","v","i","c","e">> /\ argv[i + 1] = val }
Nth(s, j) == CHOOSE x \in s : Cardinality({ y \in s : y < x }) = j - 1
ScsiBus == <<"v","i","r","t","i","o","-","s","c","s","i","-","p","c","i",",","i","d","=","s","c","s","i">>
ScsiHd == <<"s","c","s","i","-","h","d",",","d","r","i","v","e","=","h","d">>
C25_DriveArguments ==
  DrivesAdded =>
    LET argv == lastOp[1].argv
        scsi == lastOp[1].arg.virtio_scsi # 0
        nd == Len(g.drives)
        at(j) == Nth(DriveOpts(argv), j)
    IN /\ Cardinality(DriveOpts(argv)) =
            nd + (IF lastOp[1].arg.has_drive THEN 1 ELSE 0)
       /\ \A j \in 1..nd :
            /\ HasKey(argv[at(j) + 1],
                      <<"f","i","l","e","=">> \o g.drives[j].path \o <<",">>)
            /\ (scsi /\ g.drives[j].iface = NULL) <=>
                 (/\ at(j) + 3 <= Len(argv)
                  /\ at(j) + 2 \in DeviceArgs(argv, ScsiHd \o Decimal(j - 1)))
       /\ scsi =>
            /\ Cardinality(DeviceArgs(argv, ScsiBus)) = 1
            /\ \A i \in DeviceArgs(argv, ScsiBus), d \in DriveOpts(argv) : i < d
            /\ Cardinality({ i \in 1..Len(argv) : HasKey(argv[i], ScsiHd) }) =
                 Cardinality({ j \in 1..nd : g.drives[j].iface = NULL })
       /\ ~scsi =>
            \A i \in 1..Len(argv) :
              /\ ~HasKey(argv[i], VirtioScsiPci)
              /\ ~HasKey(argv[i], <<"s","c","s","i","-","h","d">>)
C25_Witness ==
  /\ DrivesAdded
  /\ lastOp[1].arg.virtio_scsi = 1
  /\ IfacesOf(g) = << NULL, Some(Ide), NULL >>
  /\ DeviceArgs(lastOp[1].argv, ScsiHd \o <<"2">>) # {}
  /\ DeviceArgs(lastOp[1].argv, ScsiHd \o <<"1">>) = {}


(* C24: the string qemu_drive_param returns is file=<path with every comma
   doubled>, then ,snapshot=on iff readonly, ,cache=none iff use_cache_none,
   ,format=<format> iff a format is set, ,serial=<label> iff a label is set,
   then ,if=<iface>, in this order; <iface> is the iface of the drive when
   set, else none when the handle has virtio-scsi as its disk bus, else
   virtio; /a,b,c.img without options under virtio-blk gives
   file=/a,,b,,c.img,if=virtio; halving the doubled commas of the escaped
   path gives the path. *)
DoubleCommas(path) ==
  LET commas(n) == Cardinality({ i \in 1..n : path[i] = "," })
  IN [ k \in 1..(Len(path) + commas(Len(path))) |->
         CHOOSE c \in { path[i] : i \in 1..Len(path) } :
           \E i \in 1..Len(path) :
             /\ path[i] = c
             /\ k \in (i + commas(i - 1))..(i + commas(i)) ]
RECURSIVE HalveCommas(_)
HalveCommas(t) ==
  IF t = << >> THEN << >>
  ELSE IF Len(t) >= 2 /\ t[1] = "," /\ t[2] = ","
       THEN << "," >> \o HalveCommas(SubSeq(t, 3, Len(t)))
       ELSE << t[1] >> \o HalveCommas(Tail(t))
C24_DriveParamForm ==
  FnReturned("qemu_drive_param") =>
    LET drv == lastOp[1].arg
        iface == IF drv.iface # NULL THEN drv.iface[1]
                 ELSE IF g.virtio_scsi = 1 THEN <<"n","o","n","e">>
                 ELSE <<"v","i","r","t","i","o">>
    IN /\ lastOp[1].str =
            <<"f","i","l","e","=">> \o DoubleCommas(drv.path)
            \o (IF drv.readonly THEN <<",","s","n","a","p","s","h","o","t","=","o","n">> ELSE << >>)
            \o (IF drv.use_cache_none THEN <<",","c","a","c","h","e","=","n","o","n","e">> ELSE << >>)
            \o (IF drv.format # NULL THEN <<",","f","o","r","m","a","t","=">> \o drv.format[1] ELSE << >>)
            \o (IF drv.disk_label # NULL THEN <<",","s","e","r","i","a","l","=">> \o drv.disk_label[1] ELSE << >>)
            \o <<",","i","f","=">> \o iface
       /\ HalveCommas(EscapePath(drv.path)) = drv.path
       /\ drv = [PlainDrive EXCEPT !.path = <<"/","a",",","b",",","c",".","i","m","g">>] =>
            lastOp[1].str = <<"f","i","l","e","=","/","a",",",",","b",",",",","c",".","i","m","g",",","i","f","=","v","i","r","t","i","o">>
C24_Witness ==
  /\ FnReturned("qemu_drive_param")
  /\ lastOp[1].arg = [PlainDrive EXCEPT !.path = <<"/","a",",","b",",","c",".","i","m","g">>]
  /\ lastOp[1].str = <<"f","i","l","e","=","/","a",",",",","b",",",",","c",".","i","m","g",",","i","f","=","v","i","r","t","i","o">>


\* C26: during a launch the listening socket is created, bound, listening and
\* non-blocking and its port is recorded before the VM child is forked; the
\* port the child writes into guestfs_vmchannel is the port of that socket;
\* no connection is accepted before the VM child is forked; and the state
\* becomes READY only after the accept loop is over: the listening socket is
\* closed and the accepted socket is installed as the handle's socket.
PreFork == {"build", "probe", "socket", "bind", "listen", "getsockname",
            "fcntl", "pipe", "fork"}
C26_Order ==
  /\ (LibAlive /\ pc \in PreFork) => ~child.forked /\ cnt.accept = 0
  /\ (LibAlive /\ pc \in {"pipe", "fork"}) =>
       /\ g.sock \in fds.open /\ g.sock \in fds.nonblock
       /\ null_vmchannel_port = ListenPort
  /\ child.forked =>
       /\ null_vmchannel_port = ListenPort
       /\ child.vmchannel = <<"g","u","e","s","t","f","s","_","v","m","c","h","a","n","n","e","l","=","t","c","p",":","1","0",".","0",".","2",".","2",":","2","0","4","9">>
  /\ (LibAlive /\ (pc = "accept" \/ cnt.accept > 0)) =>
       child.forked /\ ThisVm \in DOMAIN proc
  /\ (LibAlive /\ g.state = "READY" /\ (pc # "idle" \/ LaunchSucceeded)) =>
       /\ child.forked /\ cnt.accept > 0
       /\ auth.installed /\ g.sock = auth.fd /\ g.sock \in fds.open
       /\ fds.launch \cap fds.open
            = {g.sock} \cup (IF g.direct THEN {} ELSE {g.fd[1], g.fd[2]})
C26_Step ==
  /\ (child'.forked /\ ~child.forked) =>
       /\ pc = "fork" /\ g.sock \in fds.nonblock /\ cnt.accept = 0
       /\ g.state = "CONFIG"
  /\ (g'.state = "READY" /\ g.state # "READY") =>
       /\ pc = "recv" /\ auth.installed /\ g.sock = auth.fd
       /\ g.state = "LAUNCHING"
C26_ListenForkAcceptReady == [](C26_Order) /\ [][C26_Step]_vars

C26_Witness ==
  /\ LaunchSucceeded /\ g.state = "READY" /\ child.forked
  /\ cnt.accept = MaxAccepts
  /\ child.vmchannel = <<"g","u","e","s","t","f","s","_","v","m","c","h","a","n","n","e","l","=","t","c","p",":","1","0",".","0",".","2",".","2",":","2","0","4","9">>


\* C27: in the accept loop a connection for which the authenticator reports a
\* UID other than the effective UID of the library never ends the launch: it
\* is closed, a warning is written and the loop accepts again, as often as
\* such connections arrive; the loop is left only with a connection of the
\* library's own UID (on to closing the listener), with a failure of the
\* accept helper, or with an error of the authenticator, and after the last
\* two the launch can only return -1.
Accepted == cnt'.accept = cnt.accept + 1
Failing == {"cleanup1", "cleanup0"}
C27_Step ==
  /\ (pc = "accept" /\ LibAlive' /\ Accepted
        /\ auth'.r = 0 /\ auth'.uid # geteuid) =>
       /\ pc' = "accept" /\ g' = g /\ g.state = "LAUNCHING"
       /\ auth'.fd \notin fds'.open /\ fds'.open = fds.open
       /\ UidWarning \in log' /\ Error \notin log' \ log
  /\ (pc = "accept" /\ LibAlive' /\ pc' # "accept") =>
       \/ /\ pc' = "closelisten" /\ Accepted
          /\ auth'.r = 0 /\ auth'.uid = geteuid /\ r' = auth'.fd
       \/ pc' = "cleanup1" /\ ~Accepted /\ r' = -1
       \/ pc' = "cleanup1" /\ Accepted /\ auth'.r = -1
  /\ (pc \in Failing /\ LibAlive') =>
       \/ pc' \in Failing
       \/ pc' = "idle" /\ ret' = -1 /\ lastOp'[1].op = "launch"
C27_AcceptLoop == [][C27_Step]_vars

C27_Witness ==
  /\ LibAlive /\ pc = "accept" /\ cnt.accept = MaxAccepts
  /\ auth.r = 0 /\ auth.uid # geteuid /\ g.state = "LAUNCHING"


\* C28: in every sequence of launch and shutdown calls the library process
\* calls kill and waitpid only with a pid that is > 0 and that the handle
\* holds, at the time of the call, as the pid of the VM child or of the
\* recovery child that this library process forked; it never calls them with
\* pid 0 or -1, also when the recovery child was not forked (recoverypid = -1)
\* and when the launch failed before the VM child was forked.
LibCalls(log_) == { log_[i] : i \in { j \in 1..Len(log_) : log_[j].who = "lib" } }
C28_Calls ==
  /\ \A c \in LibCalls(syslog) :
       /\ c.op \in {"kill", "waitpid"}
       /\ c.pid > 0
       /\ c.pid \in DOMAIN proc
       /\ \/ c.pid = ThisVm /\ child.forked
          \/ c.pid = ThisWd /\ wd.pid = ThisWd
  /\ (LaunchFailed /\ ~child.forked) => LibCalls(syslog) = {}
C28_Step ==
  \A c \in LibCalls(syslog') \ LibCalls(syslog) :
    c.pid > 0 /\ c.pid \in {g.app_pid, g.app_recoverypid}
C28_OnlyOwnChildren == [](C28_Calls) /\ [][C28_Step]_vars

C28_Witness ==
  /\ Returned("shutdown") /\ pre.app_pid > 0 /\ pre.app_recoverypid = -1
  /\ LibCalls(syslog) # {}


\* C29: do_set_uuid chooses by the filesystem type of the device and calls at
\* most one setter, with the device and the UUID it was given: for an ext
\* filesystem it returns -1 without calling the setter when the new UUID is
\* "clear", "random" or "time"; for xfs it returns -1 without calling the
\* setter when the new UUID is "nil" or "generate"; for btrfs, for a type it
\* does not know and when the type cannot be determined it returns -1 without
\* calling a setter; in every other case it calls exactly the setter of the
\* type and returns what the setter returned.
SetterOf(t) ==
  IF t.extfs THEN "do_set_e2uuid"
  ELSE IF t.name = "xfs" THEN "xfs_set_uuid"
  ELSE IF t.name = "swap" THEN "swaplabel"
  ELSE "none"
Refused(t, uuid) ==
  \/ t.extfs /\ uuid \in { "clear", "random", "time" }
  \/ ~t.extfs /\ t.name = "xfs" /\ uuid \in { "nil", "generate" }
  \/ SetterOf(t) = "none"
C29_SetUuidDispatch ==
  (pc = "daemon" /\ lastOp # << >>) =>
    LET a == lastOp[1].arg
    IN /\ Len(syslog) <= 1
       /\ IF IsNull(a.tag) \/ Refused(a.tag[1], a.uuid)
          THEN ret = -1 /\ syslog = << >>
          ELSE /\ syslog = << SetterCall(SetterOf(a.tag[1]), a.device, a.uuid) >>
               /\ ret = a.out
       /\ (~IsNull(a.tag) /\ Refused(a.tag[1], a.uuid)) => Error \in log

C29_Witness ==
  /\ pc = "daemon" /\ lastOp # << >>
  /\ ~IsNull(lastOp[1].arg.tag) /\ lastOp[1].arg.tag[1].extfs
  /\ lastOp[1].arg.uuid = "random" /\ lastOp[1].arg.out = 0
  /\ ret = -1 /\ syslog = << >>

====
